---------------------------- MODULE Spec2Model ----------------------------
(***************************************************************************)
(* A model of the visual-explanation server: the /query handler            *)
(* (mcp_server.py), the instruction source with its mock fallback          *)
(* (llm_integration.py) and the instruction schema (animation_schema.py).  *)
(*                                                                         *)
(* Conventions.                                                            *)
(*  - A Python/JSON value is a record tagged by its type in field t:       *)
(*    Null, Bool(b), Num(n), Str(s), List(seq), Obj(rec).                  *)
(*  - Numbers are held in thousandths: 23.5 is Num(23500), 1.0 is          *)
(*    Num(1000), so the int 1 and the float 1.0 are the same number.       *)
(*  - A question is a sequence of one-character strings, so that           *)
(*    lower-casing and substring search are computed, not assumed.         *)
(*  - Non-ASCII characters of the mock texts are written in ASCII.         *)
(***************************************************************************)
EXTENDS Integers, Sequences, FiniteSets, TLC

VARIABLES
    clientCtor,     \* environment: what constructing anthropic.Anthropic does
    apiKey,         \* environment: ANTHROPIC_API_KEY is set
    engineFile,     \* environment: state of the file animation_engine.js
    pc,             \* position of the /query handler
    req,            \* Query.content of the request being handled
    reply,          \* what the provider call gave: content, or an exception
    outcome,        \* how the Instruction Source call of this request ended
    llm_response,   \* what generate_llm_response returned
    response,       \* the MCPResponse returned by query_mcp
    mq,             \* _mock_response: the query of the latest call
    mres,           \* _mock_response: the value returned by the latest call
    mprev,          \* _mock_response: query and value of the call before it
    store,          \* the decoded documents alive, by slot
    heap,           \* the list objects the decoded vector fields hold
    job,            \* one instruction document going through decode and compile
    page,           \* the compiled page open in a browser, with its engine
    handler,        \* the /query requests in flight, by handler
    memory,         \* what the module's globals and the handlers' locals hold
    integrator,     \* one LLMIntegrator of any provider, and its latest call
    circuit         \* a page running the electric-circuit template

vars == <<clientCtor, apiKey, engineFile, pc, req, reply, outcome,
          llm_response, response, mq, mres, mprev, store, heap, job, page,
          handler, memory, integrator, circuit>>

pipelineVars == <<clientCtor, apiKey, engineFile, pc, req, reply, outcome,
                  llm_response, response>>

mockVars == <<mq, mres, mprev>>

decodeVars == <<store, heap>>

compileVars == <<job>>

engineVars == <<page>>

serverVars == <<handler, memory>>

providerVars == <<integrator>>

circuitVars == <<circuit>>

----------------------------------------------------------------------------
(* Python / JSON values *)

Null == [t |-> "null"]

Bool(b) == [t |-> "bool", v |-> b]

Num(n) == [t |-> "num", v |-> n]

\* A str; arg is the text interpolated into an f-string ("{query}"), empty
\* for a literal.
Text(s, q) == [t |-> "str", v |-> s, arg |-> q]

Str(s) == Text(s, <<>>)

List(s) == [t |-> "list", v |-> s]

Obj(r) == [t |-> "obj", v |-> r]

\* The dict {} (a function with the empty domain).
EmptyObj == Obj(<<>>)

\* No value: the handler raised, or has not run.
NoValue == [t |-> "none"]

\* A float that is no finite number: json.loads reads the literals Infinity,
\* -Infinity and NaN as such floats.
NonFinite == [t |-> "nonfinite"]

IsObj(x) == x.t = "obj"

IsStr(x) == x.t = "str"

IsList(x) == x.t = "list"

IsNum(x) == x.t = "num"

IsNull(x) == x.t = "null"

\* An instance of a pydantic model: v maps each field to its value.
Model(fields) == [t |-> "model", v |-> fields]

HasKey(x, k) == IsObj(x) /\ k \in DOMAIN x.v

\* Python truthiness, as used by `if llm_response.get(...)`.
Truthy(x) ==
    CASE x.t = "null" -> FALSE
      [] x.t = "bool" -> x.v
      [] x.t = "num"  -> x.v # 0
      [] x.t = "nonfinite" -> TRUE
      [] x.t = "str"  -> x.v # "" \/ Len(x.arg) > 0
      [] x.t = "list" -> Len(x.v) > 0
      [] x.t = "obj"  -> DOMAIN x.v # {}
      [] OTHER        -> FALSE

\* dict.get(key): the value, or None.
Get(x, k) == IF k \in DOMAIN x.v THEN x.v[k] ELSE Null

----------------------------------------------------------------------------
(* Strings as character sequences: str.lower() and the `in` operator *)

UpperCase ==
    <<"A","B","C","D","E","F","G","H","I","J","K","L","M",
      "N","O","P","Q","R","S","T","U","V","W","X","Y","Z">>

LowerCase ==
    <<"a","b","c","d","e","f","g","h","i","j","k","l","m",
      "n","o","p","q","r","s","t","u","v","w","x","y","z">>

LowerChar(c) ==
    IF \E i \in 1..Len(UpperCase) : UpperCase[i] = c
    THEN LowerCase[CHOOSE i \in 1..Len(UpperCase) : UpperCase[i] = c]
    ELSE c

\* A plausible slip: the query is matched as typed, without .lower().
query_lower_unfolded(query) == query

\* query.lower()                                    (llm_integration.py:148)
query_lower(query) == [i \in 1..Len(query) |-> LowerChar(query[i])]

\* word in s
Contains(s, word) ==
    \E i \in 0..(Len(s) - Len(word)) : SubSeq(s, i + 1, i + Len(word)) = word

\* any(word in s for word in words)
AnyIn(words, s) == \E i \in 1..Len(words) : Contains(s, words[i])

----------------------------------------------------------------------------
(* The mock instruction source: LLMIntegrator._mock_response *)

\* ['season', 'earth', 'sun', 'orbit', 'tilt']   (llm_integration.py:151)
Keywords_solar_system ==
    <<<<"s", "e", "a", "s", "o", "n">>,
      <<"e", "a", "r", "t", "h">>,
      <<"s", "u", "n">>,
      <<"o", "r", "b", "i", "t">>,
      <<"t", "i", "l", "t">>>>

\* ['photosynthesis', 'plant', 'chlorophyll', 'oxygen', 'carbon dioxide']   (llm_integration.py:180)
Keywords_photosynthesis ==
    <<<<"p", "h", "o", "t", "o", "s", "y", "n", "t", "h", "e", "s", "i", "s">>,
      <<"p", "l", "a", "n", "t">>,
      <<"c", "h", "l", "o", "r", "o", "p", "h", "y", "l", "l">>,
      <<"o", "x", "y", "g", "e", "n">>,
      <<"c", "a", "r", "b", "o", "n", " ", "d", "i", "o", "x", "i", "d", "e">>>>

\* ['circuit', 'electric', 'current', 'voltage', 'resistance', 'electron']   (llm_integration.py:211)
Keywords_circuit ==
    <<<<"c", "i", "r", "c", "u", "i", "t">>,
      <<"e", "l", "e", "c", "t", "r", "i", "c">>,
      <<"c", "u", "r", "r", "e", "n", "t">>,
      <<"v", "o", "l", "t", "a", "g", "e">>,
      <<"r", "e", "s", "i", "s", "t", "a", "n", "c", "e">>,
      <<"e", "l", "e", "c", "t", "r", "o", "n">>>>

\* ['wave', 'interference', 'frequency', 'amplitude', 'oscillation']   (llm_integration.py:240)
Keywords_wave_interference ==
    <<<<"w", "a", "v", "e">>,
      <<"i", "n", "t", "e", "r", "f", "e", "r", "e", "n", "c", "e">>,
      <<"f", "r", "e", "q", "u", "e", "n", "c", "y">>,
      <<"a", "m", "p", "l", "i", "t", "u", "d", "e">>,
      <<"o", "s", "c", "i", "l", "l", "a", "t", "i", "o", "n">>>>

\* The Earth has seasons because its rotational axis is tilted 23.5
\* degrees relative to its orbital plane around the Sun. This tilt
\* means that as Earth orbits the Sun throughout the year, different
\* parts of the planet receive varying amounts of direct sunlight.
\* When the Northern Hemisphere is tilted toward the Sun, it
\* experiences summer with longer days and more direct sunlight,
\* while the Southern Hemisphere experiences winter. Six months
\* later, the situation reverses.
Text_solar_system ==
    Str("The Earth has seasons because its rotational axis is tilted 23.5 degrees relative to its orbital plane around the Sun. This tilt means that as Earth orbits the Sun throughout the year, different parts of the planet receive varying amounts of direct sunlight. When the Northern Hemisphere is tilted toward the Sun, it experiences summer with longer days and more direct sunlight, while the Southern Hemisphere experiences winter. Six months later, the situation reverses.")

Instructions_solar_system ==
  Obj([
    scene_type |-> Str("solar_system"),
    actors |-> List(<<Str("earth"), Str("sun"), Str("orbit_path")>>),
    parameters |-> Obj([
      earth_tilt |-> Num(23500),
      orbit_radius |-> Num(4000),
      animation_speed |-> Num(15),
      show_seasons |-> Bool(TRUE),
      earth_rotation_speed |-> Num(50)
    ]),
    timeline |-> List(<<
      Obj([
        time |-> Num(0),
        action |-> Str("start_orbit"),
        earth_position |-> Str("summer_solstice")
      ]),
      Obj([
        time |-> Num(1000),
        action |-> Str("continue_orbit"),
        earth_position |-> Str("autumn_equinox")
      ]),
      Obj([
        time |-> Num(2000),
        action |-> Str("continue_orbit"),
        earth_position |-> Str("winter_solstice")
      ]),
      Obj([
        time |-> Num(3000),
        action |-> Str("continue_orbit"),
        earth_position |-> Str("spring_equinox")
      ])
    >>),
    annotations |-> List(<<
      Obj([time |-> Num(0), text |-> Str("Summer: Northern hemisphere tilted toward Sun")]),
      Obj([time |-> Num(1000), text |-> Str("Autumn: Equal day/night length")]),
      Obj([
        time |-> Num(2000),
        text |-> Str("Winter: Northern hemisphere tilted away from Sun")
      ]),
      Obj([time |-> Num(3000), text |-> Str("Spring: Equal day/night length again")])
    >>)
  ])

\* Photosynthesis is the process by which plants convert light
\* energy, carbon dioxide, and water into glucose and oxygen. This
\* occurs primarily in the leaves, where chlorophyll captures
\* sunlight. The chemical equation is: 6CO2 + 6H2O + light energy ->
\* C6H12O6 + 6O2. This process is essential for life on Earth as it
\* produces the oxygen we breathe and forms the base of most food
\* chains.
Text_photosynthesis ==
    Str("Photosynthesis is the process by which plants convert light energy, carbon dioxide, and water into glucose and oxygen. This occurs primarily in the leaves, where chlorophyll captures sunlight. The chemical equation is: 6CO2 + 6H2O + light energy -> C6H12O6 + 6O2. This process is essential for life on Earth as it produces the oxygen we breathe and forms the base of most food chains.")

Instructions_photosynthesis ==
  Obj([
    scene_type |-> Str("photosynthesis"),
    actors |-> List(<<Str("plant"), Str("sun"), Str("co2_molecules"), Str("h2o_molecules"), Str("o2_molecules"), Str("glucose")>>),
    parameters |-> Obj([
      plant_type |-> Str("generic_plant"),
      light_intensity |-> Num(80000),
      co2_flow_rate |-> Num(10000),
      o2_production_rate |-> Num(6000),
      animation_duration |-> Num(10000)
    ]),
    timeline |-> List(<<
      Obj([time |-> Num(0), action |-> Str("sunlight_hits_leaves"), intensity |-> Num(100000)]),
      Obj([time |-> Num(1000), action |-> Str("co2_enters_stomata"), rate |-> Num(10000)]),
      Obj([time |-> Num(2000), action |-> Str("water_absorbed_by_roots"), rate |-> Num(8000)]),
      Obj([time |-> Num(3000), action |-> Str("glucose_production"), amount |-> Num(1000)]),
      Obj([time |-> Num(4000), action |-> Str("oxygen_release"), amount |-> Num(6000)])
    >>),
    annotations |-> List(<<
      Obj([time |-> Num(0), text |-> Str("Sunlight provides energy for the process")]),
      Obj([time |-> Num(1000), text |-> Str("CO2 enters through leaf pores (stomata)")]),
      Obj([time |-> Num(2000), text |-> Str("Water travels from roots to leaves")]),
      Obj([time |-> Num(3000), text |-> Str("Glucose (sugar) is produced for plant energy")]),
      Obj([time |-> Num(4000), text |-> Str("Oxygen is released as a byproduct")])
    >>)
  ])

\* An electric circuit is a closed path through which electric
\* current can flow. Current consists of moving electrons that flow
\* from the negative terminal of a power source (like a battery)
\* through the circuit components and back to the positive terminal.
\* The flow of current is governed by Ohm's Law: V = I x R, where
\* voltage (V) equals current (I) times resistance (R).
Text_circuit ==
    Str("An electric circuit is a closed path through which electric current can flow. Current consists of moving electrons that flow from the negative terminal of a power source (like a battery) through the circuit components and back to the positive terminal. The flow of current is governed by Ohm's Law: V = I x R, where voltage (V) equals current (I) times resistance (R).")

Instructions_circuit ==
  Obj([
    scene_type |-> Str("circuit"),
    actors |-> List(<<Str("battery"), Str("resistor"), Str("led"), Str("wires"), Str("electrons")>>),
    parameters |-> Obj([
      voltage |-> Num(9000),
      resistance |-> Num(470000),
      current |-> Num(19),
      electron_speed |-> Num(2000),
      show_electron_flow |-> Bool(TRUE)
    ]),
    timeline |-> List(<<
      Obj([time |-> Num(0), action |-> Str("electrons_leave_battery"), current |-> Num(19)]),
      Obj([
        time |-> Num(1000),
        action |-> Str("electrons_through_resistor"),
        voltage_drop |-> Num(8900)
      ]),
      Obj([
        time |-> Num(2000),
        action |-> Str("electrons_power_led"),
        brightness |-> Num(100000)
      ]),
      Obj([
        time |-> Num(3000),
        action |-> Str("electrons_return_battery"),
        circuit_complete |-> Bool(TRUE)
      ])
    >>),
    annotations |-> List(<<
      Obj([time |-> Num(0), text |-> Str("Electrons flow from battery's negative terminal")]),
      Obj([time |-> Num(1000), text |-> Str("Resistor limits current flow, voltage drops")]),
      Obj([time |-> Num(2000), text |-> Str("LED converts electrical energy to light")]),
      Obj([time |-> Num(3000), text |-> Str("Electrons complete the circuit back to battery")])
    >>)
  ])

\* Wave interference occurs when two or more waves meet and combine.
\* When wave peaks align (constructive interference), they create
\* larger amplitudes. When peaks meet troughs (destructive
\* interference), they can cancel out. This principle explains many
\* phenomena including sound acoustics, light patterns, and water
\* wave behavior.
Text_wave_interference ==
    Str("Wave interference occurs when two or more waves meet and combine. When wave peaks align (constructive interference), they create larger amplitudes. When peaks meet troughs (destructive interference), they can cancel out. This principle explains many phenomena including sound acoustics, light patterns, and water wave behavior.")

Instructions_wave_interference ==
  Obj([
    scene_type |-> Str("wave_interference"),
    actors |-> List(<<Str("wave_source_1"), Str("wave_source_2"), Str("interference_pattern")>>),
    parameters |-> Obj([
      frequency1 |-> Num(20),
      frequency2 |-> Num(20),
      amplitude1 |-> Num(50000),
      amplitude2 |-> Num(50000),
      wave_speed |-> Num(100000),
      medium |-> Str("water")
    ]),
    timeline |-> List(<<
      Obj([time |-> Num(0), action |-> Str("generate_waves"), sources |-> Num(2000)]),
      Obj([time |-> Num(1000), action |-> Str("waves_propagate"), distance |-> Num(100000)]),
      Obj([
        time |-> Num(2000),
        action |-> Str("constructive_interference"),
        amplitude |-> Num(100000)
      ]),
      Obj([
        time |-> Num(3000),
        action |-> Str("destructive_interference"),
        amplitude |-> Num(0)
      ])
    >>),
    annotations |-> List(<<
      Obj([time |-> Num(0), text |-> Str("Two wave sources generate identical waves")]),
      Obj([time |-> Num(1000), text |-> Str("Waves spread outward in concentric circles")]),
      Obj([time |-> Num(2000), text |-> Str("Constructive interference: waves add together")]),
      Obj([time |-> Num(3000), text |-> Str("Destructive interference: waves cancel out")])
    >>)
  ])

\* This is an explanation for: {query}. The system would analyze this
\* topic and provide relevant scientific information with appropriate
\* visualizations.
Text_custom(query) ==
    Text("This is an explanation for: {query}. The system would analyze this topic and provide relevant scientific information with appropriate visualizations.", query)

Instructions_custom ==
  Obj([
    scene_type |-> Str("custom"),
    actors |-> List(<<Str("generic_object")>>),
    parameters |-> Obj([animation_type |-> Str("basic"), duration |-> Num(5000)]),
    timeline |-> List(<<
      Obj([time |-> Num(0), action |-> Str("initialize"), state |-> Str("start")]),
      Obj([time |-> Num(1000), action |-> Str("demonstrate"), state |-> Str("active")])
    >>),
    annotations |-> List(<<
      Obj([time |-> Num(0), text |-> Str("Starting demonstration")]),
      Obj([time |-> Num(1000), text |-> Str("Showing key concepts")])
    >>)
  ])

MockReply(text, instructions) ==
    Obj([text |-> text, animation_instructions |-> instructions])

\* A plausible slip: the photosynthesis rule is tried before the solar one.
mock_response_reordered(query) ==
    LET ql == query_lower(query) IN
    IF AnyIn(Keywords_photosynthesis, ql)
    THEN MockReply(Text_photosynthesis, Instructions_photosynthesis)
    ELSE IF AnyIn(Keywords_solar_system, ql)
    THEN MockReply(Text_solar_system, Instructions_solar_system)
    ELSE IF AnyIn(Keywords_circuit, ql)
    THEN MockReply(Text_circuit, Instructions_circuit)
    ELSE IF AnyIn(Keywords_wave_interference, ql)
    THEN MockReply(Text_wave_interference, Instructions_wave_interference)
    ELSE MockReply(Text_custom(query), Instructions_custom)

\* LLMIntegrator._mock_response: the if / elif chain over the lower-cased
\* query; the default text interpolates the query as typed.
mock_response(query) ==
    LET ql == query_lower(query) IN
    IF AnyIn(Keywords_solar_system, ql)
    THEN MockReply(Text_solar_system, Instructions_solar_system)
    ELSE IF AnyIn(Keywords_photosynthesis, ql)
    THEN MockReply(Text_photosynthesis, Instructions_photosynthesis)
    ELSE IF AnyIn(Keywords_circuit, ql)
    THEN MockReply(Text_circuit, Instructions_circuit)
    ELSE IF AnyIn(Keywords_wave_interference, ql)
    THEN MockReply(Text_wave_interference, Instructions_wave_interference)
    ELSE MockReply(Text_custom(query), Instructions_custom)

----------------------------------------------------------------------------
(* The instruction schema: animation_schema.py (pydantic models) *)

\* class SceneType(str, Enum)
SceneType ==
    {"solar_system", "photosynthesis", "circuit", "wave_interference",
     "molecular", "custom"}

\* class ActorType(str, Enum)
ActorType ==
    {"sphere", "cube", "plane", "cylinder", "particle_system", "line", "text"}

Vec(a, b, c) == List(<<Num(a), Num(b), Num(c)>>)

\* A field of a model: its name, the kind of its annotation, whether it is
\* required (has no default) and its default.
Field(name, kind, default) ==
    [name |-> name, kind |-> kind, required |-> FALSE, default |-> default]

Required(name, kind) ==
    [name |-> name, kind |-> kind, required |-> TRUE, default |-> NoValue]

\* class Actor(BaseModel)
ActorFields ==
    << Required("id", "str"),
       Required("type", "actor_type"),
       Field("radius", "opt_float", Null),
       Field("color", "str", Str("#ffffff")),
       Field("position", "floats", Vec(0, 0, 0)),
       Field("rotation", "floats", Vec(0, 0, 0)),
       Field("scale", "floats", Vec(1000, 1000, 1000)),
       Field("mass", "opt_float", Null),
       Field("velocity", "opt_floats", Null),
       Field("tilt", "opt_float", Null),
       Field("orbit_radius", "opt_float", Null),
       Field("emissive", "opt_str", Null),
       Field("opacity", "opt_float", Num(1000)),
       Field("text_content", "opt_str", Null),
       Field("font_size", "opt_float", Null) >>

\* class TimelineEvent(BaseModel)
TimelineEventFields ==
    << Required("time", "float"),
       Required("properties", "dict"),
       Field("duration", "opt_float", Num(1000)),
       Field("easing", "str", Str("linear")) >>

\* class Annotation(BaseModel)
AnnotationFields ==
    << Required("time", "float"),
       Required("text", "str"),
       Field("position", "opt_floats", Null),
       Field("duration", "opt_float", Num(3000)),
       Field("style", "opt_strdict", Null) >>

\* class CameraSettings(BaseModel)
CameraSettingsFields ==
    << Field("position", "floats", Vec(0, 0, 10000)),
       Field("target", "floats", Vec(0, 0, 0)),
       Field("fov", "float", Num(75000)),
       Field("follow_actor", "opt_str", Null) >>

\* class AnimationInstructions(BaseModel)
AnimationInstructionsFields ==
    << Required("scene", "scene"),
       Required("actors", "actors"),
       Required("timeline", "timeline"),
       Required("annotations", "annotations"),
       Field("camera", "opt_camera", Null),
       Field("duration", "float", Num(10000)),
       Field("loop", "bool", Bool(TRUE)) >>

\* The strings float() reads as a number, among the strings of the model,
\* with the number read.
NumericStrings == ("1.5" :> 1500) @@ ("7" :> 7000)

\* The strings a bool field reads as a bool, among the strings of the model.
BoolStrings == ("true" :> TRUE) @@ ("no" :> FALSE)

\* pydantic's validation of one value against an annotation (lax mode): a
\* float field takes a number (finite or not), a bool or a numeric string,
\* a str field only a str, a bool field a bool, the numbers 0 and 1 or one
\* of the strings it reads as a bool; Optional[...] also takes None.
ValidFloat(x) ==
    \/ x.t \in {"num", "bool", "nonfinite"}
    \/ (IsStr(x) /\ x.v \in DOMAIN NumericStrings)

ValidFloats(x) == IsList(x) /\ \A i \in 1..Len(x.v) : ValidFloat(x.v[i])

\* A plausible slip: scene and type are annotated str instead of the enums,
\* so that any string passes.
ValidLeaf_enums_as_str(kind, x) ==
    CASE kind = "float"       -> ValidFloat(x)
      [] kind = "opt_float"   -> IsNull(x) \/ ValidFloat(x)
      [] kind = "str"         -> IsStr(x)
      [] kind = "opt_str"     -> IsNull(x) \/ IsStr(x)
      [] kind = "floats"      -> ValidFloats(x)
      [] kind = "opt_floats"  -> IsNull(x) \/ ValidFloats(x)
      [] kind = "dict"        -> IsObj(x)
      [] kind = "opt_strdict" ->
            IsNull(x) \/ (IsObj(x) /\ \A k \in DOMAIN x.v : IsStr(x.v[k]))
      [] kind = "bool"        ->
            \/ x.t = "bool"
            \/ (IsNum(x) /\ x.v \in {0, 1000})
            \/ (IsStr(x) /\ x.v \in DOMAIN BoolStrings)
      [] kind = "scene"       -> IsStr(x)
      [] kind = "actor_type"  -> IsStr(x)
      [] OTHER                -> FALSE

ValidLeaf(kind, x) ==
    CASE kind = "float"       -> ValidFloat(x)
      [] kind = "opt_float"   -> IsNull(x) \/ ValidFloat(x)
      [] kind = "str"         -> IsStr(x)
      [] kind = "opt_str"     -> IsNull(x) \/ IsStr(x)
      [] kind = "floats"      -> ValidFloats(x)
      [] kind = "opt_floats"  -> IsNull(x) \/ ValidFloats(x)
      [] kind = "dict"        -> IsObj(x)
      [] kind = "opt_strdict" ->
            IsNull(x) \/ (IsObj(x) /\ \A k \in DOMAIN x.v : IsStr(x.v[k]))
      [] kind = "bool"        ->
            \/ x.t = "bool"
            \/ (IsNum(x) /\ x.v \in {0, 1000})
            \/ (IsStr(x) /\ x.v \in DOMAIN BoolStrings)
      [] kind = "scene"       -> IsStr(x) /\ x.v \in SceneType
      [] kind = "actor_type"  -> IsStr(x) /\ x.v \in ActorType
      [] OTHER                -> FALSE

CoerceFloat(x) ==
    CASE x.t = "bool" -> Num(IF x.v THEN 1000 ELSE 0)
      [] x.t = "str"  -> Num(NumericStrings[x.v])
      [] OTHER        -> x

\* The validated value: what the field holds after construction.
CoerceLeaf(kind, x) ==
    CASE IsNull(x) -> Null
      [] kind \in {"float", "opt_float"} -> CoerceFloat(x)
      [] kind \in {"floats", "opt_floats"} ->
            List([i \in 1..Len(x.v) |-> CoerceFloat(x.v[i])])
      [] kind = "bool" ->
            CASE IsNum(x) -> Bool(x.v = 1000)
              [] IsStr(x) -> Bool(BoolStrings[x.v])
              [] OTHER    -> x
      [] OTHER -> x

FieldNames(fields) == {fields[i].name : i \in 1..Len(fields)}

FieldOf(fields, name) ==
    fields[CHOOSE i \in 1..Len(fields) : fields[i].name = name]

DecodeError == [ok |-> FALSE, value |-> NoValue]

Decoded(value) == [ok |-> TRUE, value |-> value]

\* Model(**raw) for a model whose fields are all leaves: a ValidationError
\* when a required key is missing or a given value is invalid; keys that are
\* no field are ignored; an omitted field takes its default.
DecodeLeafModel(fields, raw) ==
    IF ~IsObj(raw) THEN DecodeError
    ELSE IF \E i \in 1..Len(fields) :
                IF fields[i].name \in DOMAIN raw.v
                THEN ~ValidLeaf(fields[i].kind, raw.v[fields[i].name])
                ELSE fields[i].required
    THEN DecodeError
    ELSE Decoded([n \in FieldNames(fields) |->
                    IF n \in DOMAIN raw.v
                    THEN CoerceLeaf(FieldOf(fields, n).kind, raw.v[n])
                    ELSE FieldOf(fields, n).default])

DecodeActor(raw) == DecodeLeafModel(ActorFields, raw)

DecodeTimelineEvent(raw) == DecodeLeafModel(TimelineEventFields, raw)

DecodeAnnotation(raw) == DecodeLeafModel(AnnotationFields, raw)

DecodeCameraSettings(raw) == DecodeLeafModel(CameraSettingsFields, raw)

\* Operators of this kind take the sub-model's fields as a parameter.
ValidModelList(fields, x) ==
    IsList(x) /\ \A i \in 1..Len(x.v) : DecodeLeafModel(fields, x.v[i]).ok

DecodeModelList(fields, x) ==
    [i \in 1..Len(x.v) |-> DecodeLeafModel(fields, x.v[i]).value]

RootLeaves == {"scene", "duration", "loop"}

\* AnimationInstructions(**raw)                      (mcp_server.py:233)
\* `**raw` raises TypeError when raw is no mapping; otherwise pydantic
\* validates every given field and reports a ValidationError.
DecodeAnimationInstructions(raw) ==
    LET F == AnimationInstructionsFields
        has(n) == n \in DOMAIN raw.v
    IN
    IF ~IsObj(raw) THEN DecodeError
    ELSE IF \E i \in 1..Len(F) : F[i].required /\ ~has(F[i].name)
    THEN DecodeError
    ELSE IF \E n \in RootLeaves : has(n) /\ ~ValidLeaf(FieldOf(F, n).kind, raw.v[n])
    THEN DecodeError
    ELSE IF ~ValidModelList(ActorFields, raw.v.actors)
            \/ ~ValidModelList(TimelineEventFields, raw.v.timeline)
            \/ ~ValidModelList(AnnotationFields, raw.v.annotations)
    THEN DecodeError
    ELSE IF has("camera") /\ ~IsNull(raw.v.camera)
            /\ ~DecodeCameraSettings(raw.v.camera).ok
    THEN DecodeError
    ELSE Decoded(
        [ scene       |-> raw.v.scene,
          actors      |-> DecodeModelList(ActorFields, raw.v.actors),
          timeline    |-> DecodeModelList(TimelineEventFields, raw.v.timeline),
          annotations |-> DecodeModelList(AnnotationFields, raw.v.annotations),
          camera      |-> IF has("camera") /\ ~IsNull(raw.v.camera)
                          THEN Model(DecodeCameraSettings(raw.v.camera).value)
                          ELSE Null,
          duration    |-> IF has("duration")
                          THEN CoerceLeaf("float", raw.v.duration)
                          ELSE FieldOf(F, "duration").default,
          loop        |-> IF has("loop")
                          THEN CoerceLeaf("bool", raw.v.loop)
                          ELSE FieldOf(F, "loop").default ])

----------------------------------------------------------------------------
(* The compiler: AnimationCompiler (mcp_server.py) *)

\* The JSON text of one value, as json.loads reads it back: a float that is
\* not finite is written as null (pydantic's default for inf and nan), the
\* rest as it is.
RECURSIVE EncodeValue(_)
EncodeValue(x) ==
    CASE x.t = "nonfinite" -> Null
      [] x.t = "list" -> List([i \in 1..Len(x.v) |-> EncodeValue(x.v[i])])
      [] x.t = "obj"  -> Obj([k \in DOMAIN x.v |-> EncodeValue(x.v[k])])
      [] OTHER        -> x

EncodeModel(fields) == Obj([k \in DOMAIN fields |-> EncodeValue(fields[k])])

\* instructions.model_dump_json(): every field of every model, None as null.
EncodeModels(models) ==
    List([i \in 1..Len(models) |-> EncodeModel(models[i])])

model_dump_json(instructions) ==
    Obj([ scene       |-> instructions.scene,
          actors      |-> EncodeModels(instructions.actors),
          timeline    |-> EncodeModels(instructions.timeline),
          annotations |-> EncodeModels(instructions.annotations),
          camera      |-> IF IsNull(instructions.camera)
                          THEN Null
                          ELSE EncodeModel(instructions.camera.v),
          duration    |-> EncodeValue(instructions.duration),
          loop        |-> instructions.loop ])

EngineFileStates == {"present", "missing", "unreadable"}

\* _get_animation_engine_code: the file's text, the fallback engine when the
\* file does not exist (FileNotFoundError), and any other OSError of open()
\* is not caught there.
get_animation_engine_code(file) ==
    CASE file = "present" -> [raised |-> FALSE, code |-> "animation_engine.js"]
      [] file = "missing" -> [raised |-> FALSE, code |-> "fallback"]
      [] OTHER            -> [raised |-> TRUE, code |-> ""]

\* compile_animation: the page, as the parts interpolated into its text.
compile_animation(instructions, file) ==
    LET engine == get_animation_engine_code(file) IN
    IF engine.raised
    THEN [raised |-> TRUE, html |-> Null]
    ELSE [raised |-> FALSE,
          html |-> [ t             |-> "html",
                     scene         |-> instructions.scene,
                     duration      |-> instructions.duration,
                     engine        |-> engine.code,
                     animationData |-> model_dump_json(instructions) ]]

----------------------------------------------------------------------------
(* The instruction source: generate_llm_response (llm_integration.py) *)

\* Content that json.loads rejects.
Unparseable == [t |-> "unparseable"]

\* The provider call raised (network, timeout, authentication, a reply
\* without a content block).
Raised == [t |-> "raised"]

CtorOutcomes == {"ok", "ImportError", "Error"}

\* LLMIntegrator._anthropic_response after the call to messages.create:
\* json.loads(content), and on any exception the mock response.
anthropic_response(query, got) ==
    IF got.t \in {"raised", "unparseable"}
    THEN mock_response(query)
    ELSE got

\* How the Instruction Source ended, for a reply.
OutcomeOf(got) ==
    CASE got.t = "raised"      -> "raised"
      [] got.t = "unparseable" -> "unparseable"
      [] OTHER                 -> "parsed"

----------------------------------------------------------------------------
(* The /query handler: query_mcp (mcp_server.py:220-241) *)

MCPResponse(text, instructions, html) ==
    [text_response |-> text, animation_instructions |-> instructions,
     html_animation |-> html]

NoResponse == MCPResponse(Null, Null, Null)

Responded(r) == [pc |-> "responded", response |-> r]

\* An exception left query_mcp: the framework answers 500.
ServerError == [pc |-> "error", response |-> NoResponse]

\* llm_response["text"] raises KeyError on a dict without the key and
\* TypeError on a list, a str, a number or None; MCPResponse(text_response=)
\* raises a ValidationError when the value is no str.
TextOf(llm) ==
    IF HasKey(llm, "text") /\ IsStr(llm.v.text)
    THEN [raised |-> FALSE, text |-> llm.v.text]
    ELSE [raised |-> TRUE, text |-> Null]

\* The try block of query_mcp (lines 232-235) for truthy instructions: what
\* the response holds when the block ends, and whether it ended by raising.
try_compile(text, raw, file) ==
    LET decoded == DecodeAnimationInstructions(raw) IN
    IF ~decoded.ok
    THEN [raised |-> TRUE, response |-> MCPResponse(text, Null, Null)]
    ELSE LET compiled == compile_animation(decoded.value, file) IN
         [raised |-> compiled.raised,
          response |-> MCPResponse(text, Model(decoded.value), compiled.html)]

\* A plausible slip: the try block has no except clause, so that a decode
\* or compile error leaves the handler.
query_mcp_uncaught(llm, file) ==
    LET text == TextOf(llm) IN
    IF text.raised THEN ServerError
    ELSE IF ~Truthy(Get(llm, "animation_instructions"))
    THEN Responded(MCPResponse(text.text, Null, Null))
    ELSE LET tried == try_compile(text.text, llm.v.animation_instructions, file) IN
         IF tried.raised THEN ServerError ELSE Responded(tried.response)

\* query_mcp from line 228 on, given what generate_llm_response returned.
query_mcp(llm, file) ==
    LET text == TextOf(llm) IN
    IF text.raised THEN ServerError
    ELSE IF ~Truthy(Get(llm, "animation_instructions"))
    THEN Responded(MCPResponse(text.text, Null, Null))
    ELSE Responded(
            try_compile(text.text, llm.v.animation_instructions, file).response)

----------------------------------------------------------------------------
(* Inputs of the request pipeline *)

\* "Why does the Earth have seasons?"
Q_earth_seasons ==
    <<"W", "h", "y", " ", "d", "o", "e", "s", " ", "t", "h", "e", " ", "E",
      "a", "r", "t", "h", " ", "h", "a", "v", "e", " ", "s", "e", "a", "s",
      "o", "n", "s", "?">>

\* "asdkjasdkj random text"
Q_random_text ==
    <<"a", "s", "d", "k", "j", "a", "s", "d", "k", "j", " ", "r", "a", "n",
      "d", "o", "m", " ", "t", "e", "x", "t">>

\* "How do PLANTS make oxygen?"
Q_plants ==
    <<"H", "o", "w", " ", "d", "o", " ", "P", "L", "A", "N", "T", "S", " ",
      "m", "a", "k", "e", " ", "o", "x", "y", "g", "e", "n", "?">>

\* "Sunflower plant"
Q_sunflower ==
    <<"S", "u", "n", "f", "l", "o", "w", "e", "r", " ", "p", "l", "a", "n",
      "t">>

\* "what is electric current"
Q_current ==
    <<"w", "h", "a", "t", " ", "i", "s", " ", "e", "l", "e", "c", "t", "r",
      "i", "c", " ", "c", "u", "r", "r", "e", "n", "t">>

\* "Do waves interfere?"
Q_waves ==
    <<"D", "o", " ", "w", "a", "v", "e", "s", " ", "i", "n", "t", "e", "r",
      "f", "e", "r", "e", "?">>

Questions ==
    {Q_earth_seasons, Q_random_text, Q_plants, Q_sunflower, Q_current, Q_waves}
\* A document in the schema's own format (animation_schema.py).
SchemaDocument ==
    Obj([ scene |-> Str("solar_system"),
          actors |-> List(<<
              Obj([id |-> Str("sun"), type |-> Str("sphere"),
                   radius |-> Num(1000), color |-> Str("#ffff00")]),
              Obj([id |-> Str("earth"), type |-> Str("sphere"),
                   tilt |-> Num(23500), position |-> Vec(3000, 0, 0)]) >>),
          timeline |-> List(<<
              Obj([time |-> Num(0), properties |-> Obj([earth |-> Str("orbit")])]) >>),
          annotations |-> List(<<
              Obj([time |-> Num(0), text |-> Str("Summer")]) >>) ])

\* The same with a scene that is no SceneType.
UnknownSceneDocument ==
    Obj([ scene |-> Str("volcano"), actors |-> List(<<>>),
          timeline |-> List(<<>>), annotations |-> List(<<>>) ])

\* A document in exactly the format _get_system_prompt requires of the
\* model (llm_integration.py:60-79), its placeholders filled in.
PromptDocument ==
    Obj([ scene_type  |-> Str("solar_system"),
          actors      |-> List(<<Str("earth"), Str("sun")>>),
          parameters  |-> Obj([earth_tilt |-> Num(23500)]),
          timeline    |-> List(<<
              Obj([time |-> Num(0), action |-> Str("start_orbit"),
                   parameters |-> EmptyObj]),
              Obj([time |-> Num(1000), action |-> Str("continue_orbit"),
                   parameters |-> EmptyObj]) >>),
          annotations |-> List(<<
              Obj([time |-> Num(0), text |-> Str("Summer")]),
              Obj([time |-> Num(1000), text |-> Str("Autumn")]) >>) ])

ReplyText == Str("An explanation.")

\* What the provider's reply can be once json.loads has read it, and the
\* reply json.loads rejects.
Replies ==
    { Unparseable,
      Null,
      List(<<>>),
      Str("An explanation in prose."),
      Num(42000),
      EmptyObj,
      Obj([animation_instructions |-> SchemaDocument]),
      Obj([text |-> Num(1000)]),
      Obj([text |-> ReplyText]),
      Obj([text |-> ReplyText, animation_instructions |-> Null]),
      Obj([text |-> ReplyText, animation_instructions |-> EmptyObj]),
      Obj([text |-> ReplyText, animation_instructions |-> List(<<Str("earth")>>)]),
      Obj([text |-> ReplyText, animation_instructions |-> Instructions_solar_system]),
      Obj([text |-> ReplyText, animation_instructions |-> UnknownSceneDocument]),
      Obj([text |-> ReplyText, animation_instructions |-> PromptDocument]),
      Obj([text |-> ReplyText, animation_instructions |-> SchemaDocument]) }

----------------------------------------------------------------------------
(* The request pipeline as a state machine *)

\* Two documents are alive at a time (two requests, or two decodes of one).
Slots == {1, 2}

VectorFields == {"position", "rotation", "scale"}

\* The list objects the class Actor itself keeps as field defaults.
ClassRef(field) == <<0, 0, field>>

ClassRefs == {ClassRef(f) : f \in VectorFields}

\* A plausible slip: the default list of the class is handed to every
\* instance (as a plain class attribute or a mutable default argument is).
default_ref_shared(slot, i, field) == ClassRef(field)

\* pydantic copies a mutable default for each instance it builds
\* (position: List[float] = [0, 0, 0], lines 32-34): the list an omitted
\* field of actor i of the document in `slot` holds is that instance's own.
default_ref(slot, i, field) == <<slot, i, field>>

\* The list held by a vector field: the validated list when the key was
\* given, the default's list when it was omitted.
RefFor(raw, slot, i, field) ==
    IF field \in DOMAIN raw.v.actors.v[i].v
    THEN <<slot, i, field>>
    ELSE default_ref(slot, i, field)

EmptySlot == [raw |-> NoValue, ok |-> FALSE, value |-> NoValue, written |-> {}]

ClassDefaults == [r \in ClassRefs |-> FieldOf(ActorFields, r[3]).default]

DecodeIdle ==
    /\ store = [s \in Slots |-> EmptySlot]
    /\ heap = ClassDefaults

\* No document is in hand: nothing decoded, compiled or printed.
NoJob ==
    [ raw       |-> NoValue,
      ran       |-> FALSE,
      decoded   |-> DecodeError,
      response  |-> NoResponse,
      printed   |-> {},
      ranBefore |-> FALSE,
      earlier   |-> NoResponse,
      tripped   |-> FALSE,
      again     |-> DecodeError ]

CompileIdle == job = NoJob

\* No page is open.
NoPage ==
    [ data        |-> NoValue,
      printed     |-> {},
      three       |-> "none",
      engine      |-> "none",
      objects     |-> <<>>,
      actors      |-> <<>>,
      loops       |-> 0,
      time        |-> 0,
      currentTime |-> 0,
      shown       |-> {},
      last        |-> "none",
      repeated    |-> FALSE,
      loopsBefore |-> 0 ]

EngineIdle == page = NoPage

\* The requests the server handles at one time.
Handlers == {1, 2}

\* The names query_mcp and generate_llm_response bind, and the module-level
\* name compiler (mcp_server.py:218).
Names ==
    {"compiler", "query", "integrator", "reply", "llm_response", "response"}

\* Frame 0 holds the module's globals, frame i the locals of the calls
\* made for request i.
Locations == ({0} \cup Handlers) \X Names

\* After import: compiler = AnimationCompiler(), an object without fields.
ModuleGlobals ==
    [l \in Locations |-> IF l = <<0, "compiler">>
                         THEN [t |-> "AnimationCompiler"] ELSE NoValue]

\* A handler with no request.
NoHandler ==
    [ pc         |-> "idle",
      query      |-> <<>>,
      got        |-> NoValue,
      returned   |-> NoResponse,
      reads      |-> {},
      writes     |-> {},
      overlapped |-> FALSE ]

ServerIdle ==
    /\ handler = [i \in Handlers |-> NoHandler]
    /\ memory = ModuleGlobals

\* No LLMIntegrator has been constructed.
NoIntegrator ==
    [ provider    |-> "none",
      client      |-> "unset",
      constructed |-> {},
      called      |-> {},
      raised      |-> FALSE,
      query       |-> <<>>,
      result      |-> NoValue ]

ProviderIdle == integrator = NoIntegrator

\* No page with the template is open.
NoCircuit ==
    [ script    |-> "none",
      load      |-> "none",
      listeners |-> 0,
      electrons |-> <<>>,
      loops     |-> 0,
      early     |-> 0 ]

CircuitIdle == circuit = NoCircuit

NoQuery == <<>>

NoCall == [query |-> NoQuery, value |-> NoValue]

MockIdle ==
    /\ mq = NoQuery
    /\ mres = NoValue
    /\ mprev = NoCall

Init ==
    /\ clientCtor \in CtorOutcomes
    /\ apiKey \in BOOLEAN
    /\ engineFile \in EngineFileStates
    /\ pc = "idle"
    /\ req = NoQuery
    /\ reply = NoValue
    /\ outcome = "none"
    /\ llm_response = NoValue
    /\ response = NoResponse
    /\ MockIdle
    /\ DecodeIdle
    /\ CompileIdle
    /\ EngineIdle
    /\ ServerIdle
    /\ ProviderIdle
    /\ CircuitIdle

envVars == <<clientCtor, apiKey, engineFile>>

\* POST /query: query_mcp calls generate_llm_response, which constructs an
\* LLMIntegrator (lines 299, 33-52): _setup_client re-raises an ImportError
\* and catches nothing else, so a failing constructor leaves query_mcp.
\* Otherwise _anthropic_response starts the blocking call messages.create.
Query(q) ==
    /\ pc = "idle"
    /\ req' = q
    /\ IF clientCtor = "ok"
       THEN /\ pc' = "awaiting_provider"
            /\ outcome' = "none"
       ELSE /\ pc' = "error"
            /\ outcome' = "ctor_failed"
    /\ UNCHANGED <<envVars, reply, llm_response, response, mockVars, decodeVars, compileVars, engineVars,
                 serverVars, providerVars, circuitVars>>

\* The provider answers: messages.create returns content.  Without an API
\* key no request is authenticated, so no reply arrives.
ProviderReplies(content) ==
    /\ pc = "awaiting_provider"
    /\ apiKey
    /\ reply' = content
    /\ pc' = "replied"
    /\ UNCHANGED <<envVars, req, outcome, llm_response, response, mockVars, decodeVars, compileVars, engineVars,
                 serverVars, providerVars, circuitVars>>

\* messages.create raises: network, timeout or authentication failure.
ProviderRaises ==
    /\ pc = "awaiting_provider"
    /\ reply' = Raised
    /\ pc' = "replied"
    /\ UNCHANGED <<envVars, req, outcome, llm_response, response, mockVars, decodeVars, compileVars, engineVars,
                 serverVars, providerVars, circuitVars>>

\* The rest of the handler, which never suspends: _anthropic_response
\* returns (lines 138-143), then query_mcp lines 228-241.
HandleReply ==
    /\ pc = "replied"
    /\ LET llm == anthropic_response(req, reply)
           done == query_mcp(llm, engineFile)
       IN /\ llm_response' = llm
          /\ outcome' = OutcomeOf(reply)
          /\ pc' = done.pc
          /\ response' = done.response
    /\ UNCHANGED <<envVars, req, reply, mockVars, decodeVars, compileVars, engineVars,
                 serverVars, providerVars, circuitVars>>

\* The server takes the next request; nothing of the last one is kept.
NextRequest ==
    /\ pc \in {"responded", "error"}
    /\ pc' = "idle"
    /\ req' = NoQuery
    /\ reply' = NoValue
    /\ outcome' = "none"
    /\ llm_response' = NoValue
    /\ response' = NoResponse
    /\ UNCHANGED <<envVars, mockVars, decodeVars, compileVars, engineVars,
                 serverVars, providerVars, circuitVars>>

Next ==
    \/ \E q \in Questions : Query(q)
    \/ \E content \in Replies : ProviderReplies(content)
    \/ ProviderRaises
    \/ HandleReply
    \/ NextRequest

Spec == Init /\ [][Next]_vars

\* The handler's own step is taken when it can be; nothing makes a client
\* send a request or the provider answer.
FairSpec == Spec /\ WF_vars(HandleReply)

----------------------------------------------------------------------------
(* Properties of the request pipeline *)

Finished == pc \in {"responded", "error"}

SourceFailed == outcome \in {"raised", "unparseable"}

TextOnly ==
    /\ IsStr(response.text_response)
    /\ Truthy(response.text_response)
    /\ IsNull(response.animation_instructions)
    /\ IsNull(response.html_animation)

\* C1: whatever the Instruction Source produced for a request (a document,
\* JSON of another shape, unparseable text, a raised error), query_mcp
\* returns an MCPResponse and never ends in an unhandled error (5xx).
C1_NeverUnhandledError ==
    outcome \in {"parsed", "unparseable", "raised"} => pc # "error"

HasEarthTilted(instructions) ==
    \E i \in 1..Len(instructions.actors) :
        /\ instructions.actors[i].id = Str("earth")
        /\ instructions.actors[i].tilt = Num(23500)

\* C3: for "Why does the Earth have seasons?" with no provider configured,
\* the response has a non-empty text_response about the tilted axis,
\* animation_instructions.scene = "solar_system" and an actor "earth" with
\* tilt 23.5.
C3_SeasonsScenario ==
    (pc = "responded" /\ req = Q_earth_seasons /\ ~apiKey) =>
        /\ Truthy(response.text_response)
        /\ response.text_response = Text_solar_system
        /\ ~IsNull(response.animation_instructions)
        /\ response.animation_instructions.v.scene = Str("solar_system")
        /\ HasEarthTilted(response.animation_instructions.v)

\* C4: for a question matching no keyword ("asdkjasdkj random text") the
\* fallback response has the custom scene with exactly one actor and a
\* non-null html_animation.
C4_NoKeywordScenario ==
    (pc = "responded" /\ req = Q_random_text /\ SourceFailed) =>
        /\ ~IsNull(response.animation_instructions)
        /\ response.animation_instructions.v.scene = Str("custom")
        /\ Len(response.animation_instructions.v.actors) = 1
        /\ ~IsNull(response.html_animation)

\* C5: when the provider call fails, or the provider client cannot be
\* constructed, the caller of generate_llm_response receives exactly the
\* mock response for the question and no raw error.
C5_ProviderErrorGivesMock ==
    (Finished /\ outcome \in {"raised", "ctor_failed"}) =>
        llm_response = mock_response(req)

\* C6: every /query request whose call to a configured provider is under
\* way eventually completes, also when the provider never answers.
C6_EventuallyAnswered ==
    (pc = "awaiting_provider" /\ apiKey) ~> Finished

\* C9: generate_llm_response(query, ANTHROPIC) returns, without raising, a
\* mapping with a "text" entry, whether the provider call succeeds, fails
\* or the provider is unavailable.
C9_AlwaysTextEntry ==
    Finished => HasKey(llm_response, "text")

----------------------------------------------------------------------------
(* Repeated calls of _mock_response on one integrator *)

\* The longest run of padding put before a query.
MaxPad == 1

Pad(n) == [i \in 1..n |-> "x"]

\* Pieces of questions: keywords, keywords split over two pieces, in both
\* letter cases, and pieces that are no keyword.
FirstParts ==
    { <<>>,
      <<"s">>,
      <<"p", "l", "a", "n", "t", " ">>,
      <<"E", "l", "e", "c", "t", "r">>,
      <<"w", "a">> }

SecondParts ==
    { <<>>,
      <<"u", "n">>,
      <<"U", "N">>,
      <<"o", "n">>,
      <<" ", "t", "i", "l", "t">>,
      <<"o", "n", " ", "w", "a", "v", "e">> }

MockQueries ==
    { Pad(n) \o a \o b : n \in 0..MaxPad, a \in FirstParts, b \in SecondParts }

PipelineIdle ==
    /\ clientCtor = "ok"
    /\ apiKey = FALSE
    /\ engineFile = "missing"
    /\ pc = "idle"
    /\ req = NoQuery
    /\ reply = NoValue
    /\ outcome = "none"
    /\ llm_response = NoValue
    /\ response = NoResponse

MockInit ==
    /\ PipelineIdle
    /\ MockIdle
    /\ DecodeIdle
    /\ CompileIdle
    /\ EngineIdle
    /\ ServerIdle
    /\ ProviderIdle
    /\ CircuitIdle

\* await self._mock_response(query); the call before it is remembered.
MockCall(query) ==
    /\ mprev' = [query |-> mq, value |-> mres]
    /\ mq' = query
    /\ mres' = mock_response(query)
    /\ UNCHANGED <<pipelineVars, decodeVars, compileVars, engineVars,
                 serverVars, providerVars, circuitVars>>

MockNext == \E query \in MockQueries : MockCall(query)

MockSpec == MockInit /\ [][MockNext]_vars

\* The rule list of the spec: the keyword sets in their order, each with
\* its scene.
Rules ==
    << [keywords |-> Keywords_solar_system,      scene |-> "solar_system"],
       [keywords |-> Keywords_photosynthesis,    scene |-> "photosynthesis"],
       [keywords |-> Keywords_circuit,           scene |-> "circuit"],
       [keywords |-> Keywords_wave_interference, scene |-> "wave_interference"] >>

Lowered(s) == [i \in 1..Len(s) |-> LowerChar(s[i])]

Matching(query) ==
    { i \in 1..Len(Rules) : AnyIn(Rules[i].keywords, Lowered(query)) }

FirstMatch(query) ==
    CHOOSE i \in Matching(query) : \A j \in Matching(query) : i <= j

ExpectedScene(query) ==
    IF Matching(query) = {} THEN "custom" ELSE Rules[FirstMatch(query)].scene

SceneOf(value) == value.v.animation_instructions.v.scene_type.v

Called == mres.t # "none"

\* C7: the scene returned for a question is that of the first rule, in the
\* order solar_system, photosynthesis, circuit, wave_interference, one of
\* whose keywords occurs in the lower-cased question, and custom when no
\* rule matches.
C7_FirstMatchingRuleWins ==
    Called => SceneOf(mres) = ExpectedScene(mq)

\* A question matching the photosynthesis and the solar rule gets the solar
\* scene.
C7_Witness ==
    /\ Called
    /\ Cardinality(Matching(mq)) >= 2
    /\ 2 \in Matching(mq)
    /\ SceneOf(mres) = "solar_system"

SameUpToCase(a, b) ==
    /\ Len(a) = Len(b)
    /\ \A i \in 1..Len(a) : LowerChar(a[i]) = LowerChar(b[i])

\* C8: two runs of the fallback on questions that are equal, or differ only
\* in letter case, return the same instruction document, whatever was asked
\* before.
C8_FallbackDeterministic ==
    (Called /\ mprev.value.t # "none" /\ SameUpToCase(mq, mprev.query)) =>
        mres.v.animation_instructions = mprev.value.v.animation_instructions

\* "sUN" after "sun": two spellings of one question, both answered with
\* the solar document.
C8_Witness ==
    /\ Called
    /\ mprev.value.t # "none"
    /\ mq # mprev.query
    /\ SameUpToCase(mq, mprev.query)
    /\ SceneOf(mres) = "solar_system"
    /\ mres.v.animation_instructions = mprev.value.v.animation_instructions

----------------------------------------------------------------------------
(* Decoded documents as objects: which list each vector field holds *)

\* The most actors a drawn document has, and the most writes to decoded
\* vectors in a run.
MaxActors == 1

MaxWrites == 1

\* The components a write is drawn from: which one is written makes no
\* difference to which list it lands in.
WrittenComponents == {1}

GivenActor(id, given) ==
    LET all == [ id       |-> Str(id),
                 type     |-> Str("sphere"),
                 position |-> Vec(1000, 2000, 3000),
                 rotation |-> Vec(0, 90000, 0),
                 scale    |-> Vec(2000, 2000, 2000),
                 opacity  |-> Num(500) ]
    IN Obj([k \in {"id", "type"} \cup given |-> all[k]])

GivenSets ==
    { {}, {"position"}, {"rotation", "scale", "opacity"} }

RawActors == { GivenActor("a", g) : g \in GivenSets }

SeqsUpTo(S, n) == UNION { [1..k -> S] : k \in 0..n }

RawEvents ==
    { Obj([time |-> Num(0), properties |-> EmptyObj]),
      Obj([time |-> Num(0), properties |-> EmptyObj, duration |-> Num(2000)]) }

RawAnnotations ==
    { Obj([time |-> Num(0), text |-> Str("note")]),
      Obj([time |-> Num(0), text |-> Str("note"), duration |-> Num(5000)]) }

RawRoot(actors, timeline, annotations, given) ==
    LET all == [ scene       |-> Str("custom"),
                 actors      |-> List(actors),
                 timeline    |-> List(timeline),
                 annotations |-> List(annotations),
                 duration    |-> Num(5000),
                 loop        |-> Bool(FALSE) ]
    IN Obj([k \in {"scene", "actors", "timeline", "annotations"} \cup given
              |-> all[k]])

\* The documents drawn: every choice of actors with nothing else given,
\* every choice of the other optional fields without actors, and two
\* documents the schema rejects.
RawDocuments ==
    { RawRoot(a, <<>>, <<>>, {}) : a \in SeqsUpTo(RawActors, MaxActors) }
    \cup
    { RawRoot(<<>>, e, n, g) : e \in SeqsUpTo(RawEvents, 1),
                               n \in SeqsUpTo(RawAnnotations, 1),
                               g \in SUBSET {"duration", "loop"} }
    \cup
    { Instructions_custom, UnknownSceneDocument }

DecodeInit ==
    /\ PipelineIdle
    /\ MockIdle
    /\ DecodeIdle
    /\ CompileIdle
    /\ EngineIdle
    /\ ServerIdle
    /\ ProviderIdle
    /\ CircuitIdle

Writes == Cardinality(UNION {store[s].written : s \in Slots})

\* instructions = AnimationInstructions(**raw) into a free slot; each vector
\* field of each actor gets its list.
DecodeDocument(slot, raw) ==
    /\ store[slot].raw = NoValue
    /\ LET d == DecodeAnimationInstructions(raw) IN
       IF ~d.ok
       THEN /\ store' = [store EXCEPT ![slot] =
                            [raw |-> raw, ok |-> FALSE, value |-> NoValue,
                             written |-> {}]]
            /\ UNCHANGED heap
       ELSE LET new == { RefFor(raw, slot, i, f) :
                           i \in 1..Len(d.value.actors), f \in VectorFields }
                         \ ClassRefs
            IN /\ store' = [store EXCEPT ![slot] =
                               [raw |-> raw, ok |-> TRUE, value |-> d.value,
                                written |-> {}]]
               /\ heap' = [r \in DOMAIN heap \cup new |->
                             IF r \notin new THEN heap[r]
                             ELSE IF r[3] \in DOMAIN raw.v.actors.v[r[2]].v
                             THEN d.value.actors[r[2]][r[3]]
                             ELSE heap[ClassRef(r[3])]]
    /\ UNCHANGED <<pipelineVars, mockVars, compileVars, engineVars,
                 serverVars, providerVars, circuitVars>>

\* instructions.actors[i].<field>[k] = 9.0 on the document in `slot`.
WriteComponent(slot, i, field, k) ==
    /\ store[slot].ok
    /\ Writes < MaxWrites
    /\ i \in 1..Len(store[slot].value.actors)
    /\ LET r == RefFor(store[slot].raw, slot, i, field) IN
       /\ k \in 1..Len(heap[r].v)
       /\ heap' = [heap EXCEPT ![r] = List([heap[r].v EXCEPT ![k] = Num(9000)])]
    /\ store' = [store EXCEPT ![slot].written = @ \cup {<<slot, i, field>>}]
    /\ UNCHANGED <<pipelineVars, mockVars, compileVars, engineVars,
                 serverVars, providerVars, circuitVars>>

\* The request is answered and its document dropped.
DiscardDocument(slot) ==
    /\ store[slot].raw # NoValue
    /\ store' = [store EXCEPT ![slot] = EmptySlot]
    /\ heap' = [r \in {x \in DOMAIN heap : x[1] # slot} |-> heap[r]]
    /\ UNCHANGED <<pipelineVars, mockVars, compileVars, engineVars,
                 serverVars, providerVars, circuitVars>>

DecodeNext ==
    \/ \E slot \in Slots, raw \in RawDocuments : DecodeDocument(slot, raw)
    \/ \E slot \in Slots, i \in 1..MaxActors, f \in VectorFields,
          k \in WrittenComponents :
          WriteComponent(slot, i, f, k)
    \/ \E slot \in Slots : DiscardDocument(slot)

DecodeSpec == DecodeInit /\ [][DecodeNext]_vars

\* The value a decoded actor's field has now.
FieldNow(slot, i, field) ==
    IF field \in VectorFields
    THEN heap[RefFor(store[slot].raw, slot, i, field)]
    ELSE store[slot].value.actors[i][field]

Omitted(raw, key) == key \notin DOMAIN raw.v

DocumentedActorDefaults ==
    [ position |-> Vec(0, 0, 0), rotation |-> Vec(0, 0, 0),
      scale |-> Vec(1000, 1000, 1000), opacity |-> Num(1000) ]

\* C10: in every decoded document each omitted optional field holds its
\* documented default (actor position [0,0,0], rotation [0,0,0], scale
\* [1,1,1], opacity 1.0; event duration 1.0; annotation duration 3.0; root
\* duration 10.0, loop true), and a default vector stays so until it is
\* written through its own document: a write to another document's vector
\* does not change it.
C10_DefaultsApplied ==
    \A s \in Slots : store[s].ok =>
        LET raw == store[s].raw
            doc == store[s].value
        IN /\ \A i \in 1..Len(doc.actors) :
                \A f \in DOMAIN DocumentedActorDefaults :
                    (Omitted(raw.v.actors.v[i], f)
                       /\ <<s, i, f>> \notin store[s].written)
                    => FieldNow(s, i, f) = DocumentedActorDefaults[f]
           /\ \A i \in 1..Len(doc.timeline) :
                Omitted(raw.v.timeline.v[i], "duration")
                    => doc.timeline[i].duration = Num(1000)
           /\ \A i \in 1..Len(doc.annotations) :
                Omitted(raw.v.annotations.v[i], "duration")
                    => doc.annotations[i].duration = Num(3000)
           /\ Omitted(raw, "duration") => doc.duration = Num(10000)
           /\ Omitted(raw, "loop") => doc.loop = Bool(TRUE)

\* Two documents decoded without a position; the position of one has been
\* written, that of the other is still the default.
C10_Witness ==
    /\ store[1].ok /\ store[2].ok
    /\ Len(store[1].value.actors) = 1 /\ Len(store[2].value.actors) = 1
    /\ Omitted(store[1].raw.v.actors.v[1], "position")
    /\ Omitted(store[2].raw.v.actors.v[1], "position")
    /\ <<1, 1, "position">> \in store[1].written
    /\ FieldNow(1, 1, "position") = Vec(9000, 0, 0)
    /\ FieldNow(2, 1, "position") = Vec(0, 0, 0)
    /\ FieldNow(2, 1, "scale") = Vec(1000, 1000, 1000)

----------------------------------------------------------------------------
(* One instruction document through the try block of query_mcp *)

\* The most timeline events, and the most actors, of a drawn document.
MaxEvents == 2

MaxIds == 2

\* A document giving every field of every model.
BaseActor ==
    Obj([ id           |-> Str("earth"),
          type         |-> Str("sphere"),
          radius       |-> Num(300),
          color        |-> Str("#4169e1"),
          position     |-> Vec(3000, 0, 0),
          rotation     |-> Vec(0, 0, 0),
          scale        |-> Vec(1000, 1000, 1000),
          mass         |-> Num(1000),
          velocity     |-> Vec(0, 0, 0),
          tilt         |-> Num(23500),
          orbit_radius |-> Num(3000),
          emissive     |-> Str("#000000"),
          opacity      |-> Num(1000),
          text_content |-> Str("Earth"),
          font_size    |-> Num(12000) ])

BaseEvent ==
    Obj([ time       |-> Num(0),
          properties |-> Obj([earth |-> Str("orbit")]),
          duration   |-> Num(2000),
          easing     |-> Str("ease-in") ])

BaseAnnotation ==
    Obj([ time     |-> Num(1000),
          text     |-> Str("Summer"),
          position |-> Vec(0, 1000, 0),
          duration |-> Num(2000),
          style    |-> Obj([color |-> Str("red")]) ])

BaseCamera ==
    Obj([ position     |-> Vec(0, 0, 10000),
          target       |-> Vec(0, 0, 0),
          fov          |-> Num(60000),
          follow_actor |-> Str("earth") ])

BaseDocument ==
    Obj([ scene       |-> Str("solar_system"),
          actors      |-> List(<<BaseActor>>),
          timeline    |-> List(<<BaseEvent>>),
          annotations |-> List(<<BaseAnnotation>>),
          camera      |-> BaseCamera,
          duration    |-> Num(5000),
          loop        |-> Bool(FALSE) ])

\* dict with key k set to v, and with key k deleted.
With(obj, k, v) ==
    Obj([x \in DOMAIN obj.v \cup {k} |-> IF x = k THEN v ELSE obj.v[x]])

Without(obj, k) == Obj([x \in DOMAIN obj.v \ {k} |-> obj.v[x]])

\* The values a key of a reply can hold in place of the expected one.
TestValues ==
    { Null, Bool(TRUE), Num(1000), Num(2000), NonFinite,
      Str("1.5"), Str("true"), Str("bounce"), Str("cube"), Str("custom"),
      List(<<>>), List(<<Num(1000)>>), List(<<Str("x")>>),
      EmptyObj, Obj([a |-> Str("b")]), Obj([a |-> Num(1000)]) }

\* obj with one key deleted or holding another value.
Variants(obj, names) ==
    { Without(obj, k) : k \in names }
    \cup { With(obj, k, v) : k \in names, v \in TestValues }

\* BaseDocument with one key changed in the root, the actor, the event, the
\* annotation or the camera.
VariantDocuments ==
    Variants(BaseDocument, FieldNames(AnimationInstructionsFields))
    \cup { With(BaseDocument, "actors", List(<<a>>)) :
             a \in Variants(BaseActor, FieldNames(ActorFields)) }
    \cup { With(BaseDocument, "timeline", List(<<e>>)) :
             e \in Variants(BaseEvent, FieldNames(TimelineEventFields)) }
    \cup { With(BaseDocument, "annotations", List(<<n>>)) :
             n \in Variants(BaseAnnotation, FieldNames(AnnotationFields)) }
    \cup { With(BaseDocument, "camera", c) :
             c \in Variants(BaseCamera, FieldNames(CameraSettingsFields)) }

\* An actor of the given id and kind, nothing else given.
PlainActor(id, kind) == Obj([id |-> Str(id), type |-> Str(kind)])

ActorIds == {"earth", "sun"}

\* Documents differing in their actors' ids and kinds.
ActorDocuments ==
    { With(BaseDocument, "actors", List(a)) :
        a \in SeqsUpTo({ PlainActor(id, k) : id \in ActorIds,
                                              k \in {"sphere", "text"} },
                       MaxIds) }

\* An event at time t whose properties name the actor id.
EventAt(t, id) ==
    Obj([ time |-> Num(t), properties |-> Obj([actor_id |-> Str(id)]) ])

\* Documents differing in their timeline: its length, its order, and the
\* actor each event names ("ghost" is no actor of the document).
TimelineDocuments ==
    { With(BaseDocument, "timeline", List(e)) :
        e \in SeqsUpTo({ EventAt(t, id) : t \in {0, 1000, 2000},
                                          id \in {"earth", "ghost"} },
                       MaxEvents) }

\* loop false, duration 5, one annotation at time 7.
DeadAnnotationDocument ==
    With(BaseDocument, "annotations",
         List(<<Obj([time |-> Num(7000), text |-> Str("Too late")])>>))

\* The camera follows an actor the document does not have.
GhostCameraDocument ==
    With(BaseDocument, "camera", Obj([follow_actor |-> Str("ghost")]))

\* The root duration is -1.
NegativeDurationDocument == With(BaseDocument, "duration", Num(-1000))

CompileDocuments ==
    VariantDocuments \cup ActorDocuments \cup TimelineDocuments
    \cup {BaseDocument, DeadAnnotationDocument, GhostCameraDocument,
          NegativeDurationDocument}

\* print(f"Animation compilation error: {e}")       (mcp_server.py:237)
CompilationError == [kind |-> "Animation compilation error"]

\* Everything the try block of query_mcp prints: the line of the except
\* clause when it raised, nothing otherwise.
printed_by(tried) == IF tried.raised THEN {CompilationError} ELSE {}

CompileInit ==
    /\ PipelineIdle
    /\ MockIdle
    /\ DecodeIdle
    /\ CompileIdle
    /\ EngineIdle
    /\ ServerIdle
    /\ ProviderIdle
    /\ CircuitIdle

\* The reply of a request carries the (truthy) document raw.
Receive(raw) ==
    /\ job = NoJob
    /\ job' = [NoJob EXCEPT !.raw = raw]
    /\ UNCHANGED <<pipelineVars, mockVars, decodeVars, engineVars,
                 serverVars, providerVars, circuitVars>>

\* Lines 231-239 on the document in hand: decode, compile, or print the
\* error.  A second run is a second request carrying the same document;
\* what the run before it responded is remembered.
Process ==
    /\ job.raw.t # "none"
    /\ LET tried == try_compile(ReplyText, job.raw, engineFile) IN
       job' = [job EXCEPT !.ran       = TRUE,
                          !.decoded   = DecodeAnimationInstructions(job.raw),
                          !.response  = tried.response,
                          !.printed   = printed_by(tried),
                          !.ranBefore = job.ran,
                          !.earlier   = job.response]
    /\ UNCHANGED <<pipelineVars, mockVars, decodeVars, engineVars,
                 serverVars, providerVars, circuitVars>>

\* AnimationInstructions(**json.loads(instructions.model_dump_json())) on
\* the decoded document.
RoundTrip ==
    /\ job.ran
    /\ job.decoded.ok
    /\ ~job.tripped
    /\ job' = [job EXCEPT
                 !.tripped = TRUE,
                 !.again   = DecodeAnimationInstructions(
                                 model_dump_json(job.decoded.value))]
    /\ UNCHANGED <<pipelineVars, mockVars, decodeVars, engineVars,
                 serverVars, providerVars, circuitVars>>

\* The file animation_engine.js of the working directory is created,
\* removed or made unreadable while the server runs.
EngineFileChanges(file) ==
    /\ file # engineFile
    /\ engineFile' = file
    /\ UNCHANGED <<clientCtor, apiKey, pc, req, reply, outcome, llm_response,
                   response, mockVars, decodeVars, compileVars, engineVars,
                 serverVars, providerVars, circuitVars>>

\* The response is returned and the document dropped.
Finish ==
    /\ job.ran
    /\ job' = NoJob
    /\ UNCHANGED <<pipelineVars, mockVars, decodeVars, engineVars,
                 serverVars, providerVars, circuitVars>>

CompileNext ==
    \/ \E raw \in CompileDocuments : Receive(raw)
    \/ Process
    \/ RoundTrip
    \/ \E file \in EngineFileStates : EngineFileChanges(file)
    \/ Finish

CompileSpec == CompileInit /\ [][CompileNext]_vars

----------------------------------------------------------------------------
(* Claims on decoding *)

\* What the documentation says of a field: the class of its values, whether
\* the key is required, whether null is a value.
Shape(class, required, nullable) ==
    [class |-> class, required |-> required, nullable |-> nullable]

ActorShape ==
    [ id           |-> Shape("string", TRUE, FALSE),
      type         |-> Shape("kind", TRUE, FALSE),
      radius       |-> Shape("number", FALSE, TRUE),
      color        |-> Shape("string", FALSE, FALSE),
      position     |-> Shape("vector", FALSE, FALSE),
      rotation     |-> Shape("vector", FALSE, FALSE),
      scale        |-> Shape("vector", FALSE, FALSE),
      mass         |-> Shape("number", FALSE, TRUE),
      velocity     |-> Shape("vector", FALSE, TRUE),
      tilt         |-> Shape("number", FALSE, TRUE),
      orbit_radius |-> Shape("number", FALSE, TRUE),
      emissive     |-> Shape("string", FALSE, TRUE),
      opacity      |-> Shape("number", FALSE, TRUE),
      text_content |-> Shape("string", FALSE, TRUE),
      font_size    |-> Shape("number", FALSE, TRUE) ]

EventShape ==
    [ time       |-> Shape("number", TRUE, FALSE),
      properties |-> Shape("dict", TRUE, FALSE),
      duration   |-> Shape("number", FALSE, TRUE),
      easing     |-> Shape("easing", FALSE, FALSE) ]

AnnotationShape ==
    [ time     |-> Shape("number", TRUE, FALSE),
      text     |-> Shape("string", TRUE, FALSE),
      position |-> Shape("vector", FALSE, TRUE),
      duration |-> Shape("number", FALSE, TRUE),
      style    |-> Shape("strdict", FALSE, TRUE) ]

CameraShape ==
    [ position     |-> Shape("vector", FALSE, FALSE),
      target       |-> Shape("vector", FALSE, FALSE),
      fov          |-> Shape("number", FALSE, FALSE),
      follow_actor |-> Shape("string", FALSE, TRUE) ]

RootShape ==
    [ scene    |-> Shape("scene", TRUE, FALSE),
      duration |-> Shape("number", FALSE, FALSE),
      loop     |-> Shape("boolean", FALSE, FALSE) ]

EasingNames == {"linear", "ease-in", "ease-out", "ease-in-out"}

\* x is a number: strictly a JSON number, or also a value that converts to
\* one (true, false, a numeric string).
IsNumber(x, strict) ==
    \/ x.t \in {"num", "nonfinite"}
    \/ ~strict /\ x.t = "bool"
    \/ ~strict /\ x.t = "str" /\ x.v \in {"1.5", "7"}

IsBoolean(x, strict) ==
    \/ x.t = "bool"
    \/ ~strict /\ x.t = "num" /\ x.v \in {0, 1000}
    \/ ~strict /\ x.t = "str" /\ x.v \in {"true", "no"}

\* x is a value of the class.  Strictly, easing is an enum of four names;
\* otherwise any string is an easing.
IsA(class, x, strict) ==
    CASE class = "number"  -> IsNumber(x, strict)
      [] class = "boolean" -> IsBoolean(x, strict)
      [] class = "string"  -> x.t = "str"
      [] class = "vector"  ->
            x.t = "list" /\ \A i \in 1..Len(x.v) : IsNumber(x.v[i], strict)
      [] class = "dict"    -> x.t = "obj"
      [] class = "strdict" ->
            x.t = "obj" /\ \A k \in DOMAIN x.v : x.v[k].t = "str"
      [] class = "scene"   ->
            x.t = "str" /\ x.v \in {"solar_system", "photosynthesis", "circuit",
                                    "wave_interference", "molecular", "custom"}
      [] class = "kind"    ->
            x.t = "str" /\ x.v \in {"sphere", "cube", "plane", "cylinder",
                                    "particle_system", "line", "text"}
      [] class = "easing"  ->
            x.t = "str" /\ (strict => x.v \in EasingNames)

\* Structural validity against a shape: every required key present, every
\* given value of its class (or null where null is a value).
ConformsTo(shape, x, strict) ==
    /\ x.t = "obj"
    /\ \A k \in DOMAIN shape :
          IF k \in DOMAIN x.v
          THEN \/ shape[k].nullable /\ x.v[k].t = "null"
               \/ IsA(shape[k].class, x.v[k], strict)
          ELSE ~shape[k].required

AllConform(shape, x, strict) ==
    /\ x.t = "list"
    /\ \A i \in 1..Len(x.v) : ConformsTo(shape, x.v[i], strict)

StructurallyValid(x, strict) ==
    /\ ConformsTo(RootShape, x, strict)
    /\ {"actors", "timeline", "annotations"} \subseteq DOMAIN x.v
    /\ AllConform(ActorShape, x.v.actors, strict)
    /\ AllConform(EventShape, x.v.timeline, strict)
    /\ AllConform(AnnotationShape, x.v.annotations, strict)
    /\ "camera" \in DOMAIN x.v =>
          \/ x.v.camera.t = "null"
          \/ ConformsTo(CameraShape, x.v.camera, strict)

\* The response holds a populated AnimationInstructions.
Populated == job.response.animation_instructions.t = "model"

\* The decode failed: no instructions, and the error was printed.
Rejected ==
    /\ job.response.animation_instructions.t = "null"
    /\ CompilationError \in job.printed

\* C11 as stated: decoding yields a populated AnimationInstructions exactly
\* when the document is structurally valid (every required key, every value
\* of its primitive type, every enum value - scene type, actor kind, easing -
\* recognized), and a decode error otherwise.
C11_DecodesExactlyValid ==
    job.ran =>
        IF StructurallyValid(job.raw, TRUE) THEN Populated ELSE Rejected

\* C11 amended: the same, where easing is any string (it is no enum) and a
\* value that converts to the field's type (true, false or a numeric string
\* for a number; 0, 1 or a truth word for a boolean) counts as of that type.
C11_DecodesExactlyConvertible ==
    job.ran =>
        IF StructurallyValid(job.raw, FALSE) THEN Populated ELSE Rejected

\* A document whose one event has the easing "bounce" was decoded, with
\* that easing.
C11_Witness ==
    /\ job.ran
    /\ job.raw = With(BaseDocument, "timeline",
                      List(<<With(BaseEvent, "easing", Str("bounce"))>>))
    /\ Populated
    /\ job.response.animation_instructions.v.timeline[1].easing = Str("bounce")

\* C12: for every document that decodes, decoding the encoding of the
\* decoded value succeeds and gives a value equal to the first decode.
C12_RoundTrip ==
    job.tripped =>
        /\ job.again.ok
        /\ job.again.value = job.decoded.value

----------------------------------------------------------------------------
(* Claims on validation and compilation *)

\* The document in hand was decoded.
DecodedDocument == job.decoded.value

Compiled == job.ran /\ job.response.html_animation.t = "html"

\* The scene the compiled page carries.
CompiledScene == job.response.html_animation.animationData.v

\* The violations of a kind reported for the document in hand: the code has
\* no channel for a report but what it prints (the response has no field
\* for one).
Reported(kind) == { r \in job.printed : r.kind = kind }

ActorIdsOf(doc) == { doc.actors[i].id.v : i \in 1..Len(doc.actors) }

SharedIds(doc) ==
    { doc.actors[i].id.v : i \in { j \in 1..Len(doc.actors) :
        \E k \in 1..Len(doc.actors) :
            k # j /\ doc.actors[k].id = doc.actors[j].id } }

\* C13: a document whose actor ids are pairwise distinct gets no
\* id-uniqueness violation, and for each id shared by two or more actors
\* exactly one violation naming that id is reported.
C13_IdUniquenessReported ==
    (job.ran /\ job.decoded.ok) =>
        Reported("duplicate actor id")
            = { [kind |-> "duplicate actor id", id |-> id] :
                  id \in SharedIds(DecodedDocument) }

\* The actor an event names, when it names one.
NamesActor(event) == "actor_id" \in DOMAIN event.properties.v

\* The event names an actor the document does not have.
Unresolved(doc, event) ==
    /\ NamesActor(event)
    /\ event.properties.v.actor_id.v \notin ActorIdsOf(doc)

UnresolvedEvents(doc) ==
    { i \in 1..Len(doc.timeline) : Unresolved(doc, doc.timeline[i]) }

Resolved(doc) ==
    SelectSeq(doc.timeline, LAMBDA event : ~Unresolved(doc, event))

\* C14: for a document with one timeline event naming an actor that does
\* not exist, exactly one unresolved-reference violation is reported, and
\* the compiled scene has every actor, every annotation and every other
\* event, and not that event.
C14_UnresolvedEventOmitted ==
    (job.ran /\ job.decoded.ok /\ engineFile # "unreadable"
       /\ Cardinality(UnresolvedEvents(DecodedDocument)) = 1) =>
        /\ Cardinality(Reported("unresolved reference")) = 1
        /\ Compiled
        /\ CompiledScene.timeline = EncodeModels(Resolved(DecodedDocument))
        /\ CompiledScene.actors = EncodeModels(DecodedDocument.actors)
        /\ CompiledScene.annotations
              = EncodeModels(DecodedDocument.annotations)

\* The camera follows an actor the document does not have.
UnresolvedFollow(doc) ==
    /\ doc.camera.t = "model"
    /\ doc.camera.v.follow_actor.t = "str"
    /\ doc.camera.v.follow_actor.v \notin ActorIdsOf(doc)

\* C15: a decoded document with semantic violations is compiled on a
\* best-effort basis: the compiled scene has no event and no camera binding
\* that names a missing actor, it keeps every actor and every annotation,
\* and the animation is withheld only when the document has no actor.
C15_BestEffortPruning ==
    (job.ran /\ job.decoded.ok) =>
        /\ ~Compiled => Len(DecodedDocument.actors) = 0
        /\ Compiled =>
            /\ CompiledScene.timeline
                  = EncodeModels(Resolved(DecodedDocument))
            /\ UnresolvedFollow(DecodedDocument)
                  => CompiledScene.camera.v.follow_actor.t = "null"
            /\ CompiledScene.actors = EncodeModels(DecodedDocument.actors)
            /\ CompiledScene.annotations
                  = EncodeModels(DecodedDocument.annotations)

FiniteTimes(timeline) ==
    \A i \in 1..Len(timeline) : timeline[i].time.t = "num"

\* The events of a timeline in the order of a stable sort by time: those
\* of the least time in document order, then the rest.
RECURSIVE StableSort(_)
StableSort(timeline) ==
    IF timeline = <<>> THEN <<>>
    ELSE LET least == CHOOSE t \in { timeline[i].time.v : i \in 1..Len(timeline) } :
                        \A i \in 1..Len(timeline) : t <= timeline[i].time.v
         IN SelectSeq(timeline, LAMBDA event : event.time.v = least)
            \o StableSort(SelectSeq(timeline, LAMBDA event : event.time.v # least))

\* C16: the timeline of the compiled scene is the document's timeline
\* sorted by time, events of equal time in document order.
C16_TimelineSorted ==
    (Compiled /\ FiniteTimes(DecodedDocument.timeline)) =>
        CompiledScene.timeline
            = EncodeModels(StableSort(DecodedDocument.timeline))

\* C17: two compilations of one document, at any two points of a run, give
\* the same output.
C17_CompileIdempotent ==
    (job.ran /\ job.ranBefore) =>
        job.response.html_animation = job.earlier.html_animation

----------------------------------------------------------------------------
(* The compiled page in a browser, with the fallback engine *)

\* The most frame loops running at once, and the farthest the clock is
\* followed, in steps of 0.016 s.
MaxLoops == 2

MaxTicks == 4

\* One-actor documents of every actor kind.
KindDocuments ==
    { With(BaseDocument, "actors", List(<<PlainActor("earth", k)>>)) :
        k \in ActorType }

EngineDocuments ==
    KindDocuments \cup ActorDocuments
    \cup {BaseDocument, DeadAnnotationDocument}

\* <script src="https://cdn.jsdelivr.net/.../three.min.js"> (line 86): the
\* library is loaded, or the request for it fails and THREE is undefined.
ThreeStates == {"loaded", "failed"}

\* The mesh made for one actor (lines 175-184): a sphere for a sphere, a
\* unit box for every other kind.
mesh_of(actor) == IF actor.type = Str("sphere") THEN "sphere" ELSE "box"

\* A plausible slip: the else branch is written for cubes only, and any
\* other kind throws.
createAnimationFromJSON_known_kinds(data, three) ==
    IF three # "loaded"
         \/ \E i \in 1..Len(data.actors.v) :
                data.actors.v[i].v.type.v \notin {"sphere", "cube"}
    THEN [raised |-> TRUE, objects |-> <<>>, actors |-> <<>>]
    ELSE [raised  |-> FALSE,
          objects |-> [i \in 1..Len(data.actors.v) |->
                         mesh_of(data.actors.v[i].v)],
          actors  |-> <<>>]

\* createAnimationFromJSON of the fallback engine (lines 153-214): new
\* THREE.Scene() throws when the library is not loaded; otherwise one mesh
\* is added to the scene for each actor, in document order, and
\* actors[actor.id] names the mesh of the last actor of that id.  animate
\* is not called: no frame loop runs until play is.
createAnimationFromJSON(data, three) ==
    IF three # "loaded"
    THEN [raised |-> TRUE, objects |-> <<>>, actors |-> <<>>]
    ELSE LET a == data.actors.v
             ids == { a[i].v.id.v : i \in 1..Len(a) }
         IN [raised  |-> FALSE,
             objects |-> [i \in 1..Len(a) |-> mesh_of(a[i].v)],
             actors  |-> [id \in ids |->
                            CHOOSE i \in 1..Len(a) :
                                /\ a[i].v.id.v = id
                                /\ \A j \in 1..Len(a) :
                                       a[j].v.id.v = id => j <= i]]

EngineInit ==
    /\ PipelineIdle
    /\ MockIdle
    /\ DecodeIdle
    /\ CompileIdle
    /\ EngineIdle
    /\ ServerIdle
    /\ ProviderIdle
    /\ CircuitIdle

\* The demo page puts the html_animation of a response into an iframe
\* (lines 350-361): the document was decoded and compiled by query_mcp,
\* here with animation_engine.js absent, and the page's script has run up
\* to the listener for DOMContentLoaded.
OpenPage(raw, three) ==
    /\ page = NoPage
    /\ LET tried == try_compile(ReplyText, raw, engineFile)
           html  == tried.response.html_animation
       IN /\ html.t = "html"
          /\ html.engine = "fallback"
          /\ page' = [NoPage EXCEPT !.data    = html.animationData,
                                    !.printed = printed_by(tried),
                                    !.three   = three]
    /\ UNCHANGED <<pipelineVars, mockVars, decodeVars, compileVars,
                 serverVars, providerVars, circuitVars>>

\* initializeAnimation (lines 118-127), on DOMContentLoaded.
InitializeAnimation ==
    /\ page.data.t = "obj"
    /\ page.engine = "none"
    /\ LET made == createAnimationFromJSON(page.data.v, page.three) IN
       page' = [page EXCEPT
                  !.engine  = IF made.raised THEN "failed" ELSE "created",
                  !.objects = made.objects,
                  !.actors  = made.actors]
    /\ UNCHANGED <<pipelineVars, mockVars, decodeVars, compileVars,
                 serverVars, providerVars, circuitVars>>

\* What a click on a control is remembered by.
Clicked(control, after) ==
    [after EXCEPT !.last        = control,
                  !.repeated    = (page.last = control),
                  !.loopsBefore = page.loops]

\* animate() called once (lines 195-207): it asks for the next frame, which
\* starts one more frame loop, and advances the clock by 0.016.  Where the
\* mesh of the actor earth is drawn follows from the clock alone.
animate(p) == [p EXCEPT !.loops = @ + 1, !.time = @ + 1]

\* The Play button: window.animationEngine && window.animationEngine.play(),
\* and play is animate (line 210).
Play ==
    /\ page.data.t = "obj"
    /\ page.loops < MaxLoops
    /\ page.time < MaxTicks
    /\ page' = Clicked("play",
                       IF page.engine = "created" THEN animate(page) ELSE page)
    /\ UNCHANGED <<pipelineVars, mockVars, decodeVars, compileVars,
                 serverVars, providerVars, circuitVars>>

\* The Pause button: pause is () => {} (line 211).
Pause ==
    /\ page.data.t = "obj"
    /\ page' = Clicked("pause", page)
    /\ UNCHANGED <<pipelineVars, mockVars, decodeVars, compileVars,
                 serverVars, providerVars, circuitVars>>

\* The Restart button: restartAnimation (lines 110-115) sets the engine's
\* currentTime property, which animate never reads, and calls play().
Restart ==
    /\ page.data.t = "obj"
    /\ page.loops < MaxLoops
    /\ page.time < MaxTicks
    /\ page' = Clicked("restart",
                       IF page.engine = "created"
                       THEN animate([page EXCEPT !.currentTime = 0])
                       ELSE page)
    /\ UNCHANGED <<pipelineVars, mockVars, decodeVars, compileVars,
                 serverVars, providerVars, circuitVars>>

\* One display frame: the callback of every running loop runs animate's
\* body, asking for the next frame and advancing the clock by 0.016.  No
\* annotation is shown by this engine at any time.
Frame ==
    /\ page.loops > 0
    /\ page.time + page.loops <= MaxTicks
    /\ page' = [page EXCEPT !.time = @ + page.loops]
    /\ UNCHANGED <<pipelineVars, mockVars, decodeVars, compileVars,
                 serverVars, providerVars, circuitVars>>

\* The iframe is replaced or the tab closed.
ClosePage ==
    /\ page.data.t = "obj"
    /\ page' = NoPage
    /\ UNCHANGED <<pipelineVars, mockVars, decodeVars, compileVars,
                 serverVars, providerVars, circuitVars>>

EngineNext ==
    \/ \E raw \in EngineDocuments, three \in ThreeStates : OpenPage(raw, three)
    \/ InitializeAnimation
    \/ Play
    \/ Pause
    \/ Restart
    \/ Frame
    \/ ClosePage

EngineSpec == EngineInit /\ [][EngineNext]_vars

----------------------------------------------------------------------------
(* Claims on playback *)

Created == page.engine = "created"

\* The page plays the document with loop false, duration 5 and one
\* annotation, at time 7.
PlaysDeadAnnotation ==
    /\ Created
    /\ page.data.v.loop = Bool(FALSE)
    /\ page.data.v.duration = Num(5000)
    /\ Len(page.data.v.annotations.v) = 1
    /\ page.data.v.annotations.v[1].v.time = Num(7000)

\* C18: for the document with loop false, duration 5 and one annotation at
\* time 7, compilation emitted a dead-content warning, and the annotation
\* is not displayed at any point of the playback.
C18_DeadContentWarned ==
    PlaysDeadAnnotation =>
        /\ \E r \in page.printed : r.kind = "dead content"
        /\ 1 \notin page.shown

\* C19: a control applied right after the same control leaves the number
\* of running frame loops, and with it the rate of the clock, as the first
\* application left it; and after pause no frame loop advances the clock.
C19_ControlsIdempotent ==
    Created =>
        /\ page.repeated => page.loops = page.loopsBefore
        /\ page.last = "pause" => page.loops = 0

\* C20: once the page has initialized, the scene holds one object for each
\* actor of the document, a sphere for a sphere and the placeholder box for
\* every other kind, and creation has failed only if the library did not
\* load.
C20_PlaceholderForEveryKind ==
    page.engine # "none" =>
        /\ page.engine = "failed" => page.three = "failed"
        /\ Created =>
            /\ Len(page.objects) = Len(page.data.v.actors.v)
            /\ \A i \in 1..Len(page.objects) :
                  page.objects[i] =
                      IF page.data.v.actors.v[i].v.type.v = "sphere"
                      THEN "sphere" ELSE "box"

\* A scene created for two actors of one id, the second of kind text: two
\* objects, the second a box.
C20_Witness ==
    /\ Created
    /\ Len(page.data.v.actors.v) = 2
    /\ page.data.v.actors.v[1].v.id = page.data.v.actors.v[2].v.id
    /\ page.data.v.actors.v[2].v.type.v = "text"
    /\ page.objects = <<"sphere", "box">>

----------------------------------------------------------------------------
(* Claims on templates, validation and the response *)

\* class AnimationTemplates (animation_templates.py): its static methods,
\* by the scene each one draws.  No module of the program imports the class.
AnimationTemplates ==
    [ solar_system      |-> "solar_system_advanced",
      photosynthesis    |-> "photosynthesis_process",
      circuit           |-> "electric_circuit",
      wave_interference |-> "wave_interference" ]

\* C21: the script of the compiled page is the template of the document's
\* scene, and the "template not found" placeholder for a scene that has no
\* template; compiling such a scene does not fail.
C21_TemplateByScene ==
    (job.ran /\ job.decoded.ok /\ engineFile # "unreadable") =>
        /\ Compiled
        /\ LET scene == DecodedDocument.scene.v IN
           job.response.html_animation.engine =
               IF scene \in DOMAIN AnimationTemplates
               THEN AnimationTemplates[scene]
               ELSE "template not found"

\* C23: a decoded document whose camera.follow_actor is set and is the id
\* of none of its actors is reported as a violation.
C23_FollowActorReported ==
    (job.ran /\ job.decoded.ok /\ UnresolvedFollow(DecodedDocument)) =>
        Reported("unresolved follow_actor") # {}

\* position, rotation, scale and velocity of class Actor.
ActorVectors == VectorFields \cup {"velocity"}

\* The vectors of doc's actors that are present and have not 3 components.
WrongLength(doc) ==
    { <<i, f>> \in (1..Len(doc.actors)) \X ActorVectors :
        /\ doc.actors[i][f].t = "list"
        /\ Len(doc.actors[i][f].v) # 3 }

\* C24: every position, rotation, scale and velocity of an actor of a
\* decoded document has 3 components when present, unless a violation is
\* reported for the document.
C24_VectorsHaveThreeComponents ==
    (job.ran /\ job.decoded.ok) =>
        \/ WrongLength(DecodedDocument) = {}
        \/ Reported("vector length") # {}

\* A number below lo or above hi (in thousandths); a value that is no finite
\* number is in no range and out of none.
Outside(x, lo, hi) == x.t = "num" /\ (x.v < lo \/ x.v > hi)

Negative(x) == x.t = "num" /\ x.v < 0

\* A time that is negative or later than the root duration.
BadTime(doc, x) ==
    \/ Negative(x)
    \/ x.t = "num" /\ doc.duration.t = "num" /\ x.v > doc.duration.v

\* The document has an opacity outside [0, 1], a negative duration, or an
\* event or annotation time that is negative or beyond the root duration.
OutOfRange(doc) ==
    \/ \E i \in 1..Len(doc.actors) : Outside(doc.actors[i].opacity, 0, 1000)
    \/ Negative(doc.duration)
    \/ \E i \in 1..Len(doc.timeline) :
          Negative(doc.timeline[i].duration) \/ BadTime(doc, doc.timeline[i].time)
    \/ \E i \in 1..Len(doc.annotations) :
          \/ Negative(doc.annotations[i].duration)
          \/ BadTime(doc, doc.annotations[i].time)

\* C25: a decoded document with a value out of its range is reported as a
\* violation, and the compiled scene carries the document's values as they
\* were given.
C25_RangesReportedNotClamped ==
    (job.ran /\ job.decoded.ok /\ OutOfRange(DecodedDocument)) =>
        /\ Reported("out of range") # {}
        /\ Compiled => CompiledScene = model_dump_json(DecodedDocument).v

\* C26: in every response query_mcp returns, animation_instructions and
\* html_animation are both null or both set.
C26_BothOrNeither ==
    pc = "responded" =>
        (response.animation_instructions.t = "null"
            <=> response.html_animation.t = "null")

\* LLMIntegrator.validate_animation_instructions, on a dict: every required
\* field is a key.  Nothing calls it.
validate_animation_instructions(instructions) ==
    \A field \in {"scene_type", "actors", "parameters", "timeline",
                  "annotations"} : HasKey(instructions, field)

\* Every element of the list x is a dict whose keys are `keys`, with a
\* number under "time" and a str under the key `named`.
ListOfEntries(x, keys, named) ==
    /\ IsList(x)
    /\ \A i \in 1..Len(x.v) :
          /\ IsObj(x.v[i])
          /\ DOMAIN x.v[i].v = keys
          /\ IsNum(x.v[i].v.time)
          /\ IsStr(x.v[i].v[named])

\* The reply has the format the system prompt requires: a "text" entry and
\* an "animation_instructions" object with scene_type, actors as a list of
\* names, parameters, timeline and annotations.
FollowsPrompt(llm) ==
    /\ HasKey(llm, "text") /\ IsStr(llm.v.text)
    /\ DOMAIN llm.v = {"text", "animation_instructions"}
    /\ LET doc == llm.v.animation_instructions IN
       /\ validate_animation_instructions(doc)
       /\ DOMAIN doc.v = {"scene_type", "actors", "parameters", "timeline",
                          "annotations"}
       /\ IsStr(doc.v.scene_type) /\ doc.v.scene_type.v \in SceneType
       /\ IsList(doc.v.actors)
       /\ \A i \in 1..Len(doc.v.actors.v) : IsStr(doc.v.actors.v[i])
       /\ IsObj(doc.v.parameters)
       /\ ListOfEntries(doc.v.timeline, {"time", "action", "parameters"},
                        "action")
       /\ \A i \in 1..Len(doc.v.timeline.v) :
             IsObj(doc.v.timeline.v[i].v.parameters)
       /\ ListOfEntries(doc.v.annotations, {"time", "text"}, "text")

\* C27: a parsed reply in the format the system prompt requires is returned
\* with animation_instructions and html_animation set (the engine file
\* being readable or absent).
C27_PromptFormatAccepted ==
    (pc = "responded" /\ outcome = "parsed" /\ engineFile # "unreadable"
       /\ FollowsPrompt(llm_response)) =>
        /\ response.animation_instructions.t # "null"
        /\ response.html_animation.t # "null"

----------------------------------------------------------------------------
(* Two /query requests at a time *)

\* A plausible slip: the handler keeps what it binds in module-level names.
local_module_level(i, name) == <<0, name>>

\* The frame of a name bound while request i is handled: query_mcp,
\* generate_llm_response and the LLMIntegrator methods bind parameters and
\* local variables only, each call in a frame of its own.
local(i, name) == <<i, name>>

\* sys.stdout, which print() writes.
Stdout == <<0, "stdout">>

ServerQuestions == {Q_earth_seasons, Q_random_text}

ServerReplies ==
    { Raised,
      Unparseable,
      Obj([text |-> ReplyText]),
      Obj([text |-> ReplyText, animation_instructions |-> PromptDocument]),
      Obj([text |-> ReplyText, animation_instructions |-> SchemaDocument]) }

ServerInit ==
    /\ clientCtor \in CtorOutcomes
    /\ apiKey = TRUE
    /\ engineFile \in EngineFileStates
    /\ pc = "idle"
    /\ req = NoQuery
    /\ reply = NoValue
    /\ outcome = "none"
    /\ llm_response = NoValue
    /\ response = NoResponse
    /\ MockIdle
    /\ DecodeIdle
    /\ CompileIdle
    /\ EngineIdle
    /\ ServerIdle
    /\ ProviderIdle
    /\ CircuitIdle

InFlight(h) == h.pc = "awaiting_provider" \/ h.pc = "replied"

\* Request i arrives: query_mcp(query) calls generate_llm_response, which
\* binds integrator = LLMIntegrator(provider) (llm_integration.py:299) and
\* runs up to the call of messages.create.  A failing constructor leaves
\* query_mcp at once.
Arrive(i, q) ==
    /\ ~InFlight(handler[i])
    /\ memory' = [memory EXCEPT
                    ![local(i, "query")] = q,
                    ![local(i, "integrator")] =
                        IF clientCtor = "ok"
                        THEN [ provider |-> "anthropic", api_key |-> apiKey,
                               client |-> "anthropic.Anthropic" ]
                        ELSE NoValue,
                    ![local(i, "reply")] = NoValue,
                    ![local(i, "llm_response")] = NoValue,
                    ![local(i, "response")] = NoValue ]
    /\ handler' =
         [h \in Handlers |->
            IF h = i
            THEN [ pc         |-> IF clientCtor = "ok"
                                  THEN "awaiting_provider" ELSE "returned",
                   query      |-> q,
                   got        |-> NoValue,
                   returned   |-> IF clientCtor = "ok"
                                  THEN NoValue ELSE ServerError,
                   reads      |-> {},
                   writes     |-> {local(i, "query"), local(i, "integrator")},
                   overlapped |-> \E j \in Handlers \ {i} :
                                     InFlight(handler[j]) ]
            ELSE [handler[h] EXCEPT !.overlapped = @ \/ InFlight(handler[h])]]
    /\ UNCHANGED <<pipelineVars, mockVars, decodeVars, compileVars,
                   engineVars, providerVars, circuitVars>>

\* messages.create of request i returns content or raises; the request it
\* sent was built from self.client, the system prompt and the query.
ProviderReturns(i, got) ==
    /\ handler[i].pc = "awaiting_provider"
    /\ got = Raised \/ apiKey
    /\ memory' = [memory EXCEPT ![local(i, "reply")] = got]
    /\ handler' = [handler EXCEPT
                     ![i].pc = "replied",
                     ![i].got = got,
                     ![i].reads = @ \cup {local(i, "integrator"),
                                          local(i, "query")},
                     ![i].writes = @ \cup {local(i, "reply")}]
    /\ UNCHANGED <<pipelineVars, mockVars, decodeVars, compileVars,
                   engineVars, providerVars, circuitVars>>

\* What the rest of the handler prints: the except clause of
\* _anthropic_response, and the one of query_mcp.
Prints(got, llm, file) ==
    \/ got.t \in {"raised", "unparseable"}
    \/ /\ ~TextOf(llm).raised
       /\ Truthy(Get(llm, "animation_instructions"))
       /\ try_compile(TextOf(llm).text, llm.v.animation_instructions,
                      file).raised

\* The handler reaches compiler.compile_animation (mcp_server.py:235).
ReachesCompiler(llm) ==
    /\ ~TextOf(llm).raised
    /\ Truthy(Get(llm, "animation_instructions"))
    /\ DecodeAnimationInstructions(llm.v.animation_instructions).ok

\* The rest of request i, which never suspends: _anthropic_response returns
\* (the mock response after an exception), then query_mcp lines 228-241.
FinishRequest(i) ==
    /\ handler[i].pc = "replied"
    /\ LET llm  == anthropic_response(memory[local(i, "query")],
                                      memory[local(i, "reply")])
           done == query_mcp(llm, engineFile)
       IN /\ memory' = [memory EXCEPT ![local(i, "llm_response")] = llm,
                                      ![local(i, "response")] = done]
          /\ handler' = [handler EXCEPT
               ![i].pc = "returned",
               ![i].returned = done,
               ![i].reads = @ \cup {local(i, "query"), local(i, "reply"),
                                    local(i, "llm_response"),
                                    local(i, "response")}
                              \cup (IF ReachesCompiler(llm)
                                    THEN {<<0, "compiler">>} ELSE {}),
               ![i].writes = @ \cup {local(i, "llm_response"),
                                     local(i, "response")}
                               \cup (IF Prints(memory[local(i, "reply")],
                                               llm, engineFile)
                                     THEN {Stdout} ELSE {})]
    /\ UNCHANGED <<pipelineVars, mockVars, decodeVars, compileVars,
                   engineVars, providerVars, circuitVars>>

ServerNext ==
    \/ \E i \in Handlers, q \in ServerQuestions : Arrive(i, q)
    \/ \E i \in Handlers, got \in ServerReplies : ProviderReturns(i, got)
    \/ \E i \in Handlers : FinishRequest(i)

ServerSpec == ServerInit /\ [][ServerNext]_vars

\* The response of a request handled with no other request around.
Alone(h) == query_mcp(anthropic_response(h.query, h.got), engineFile)

\* C22: under every interleaving of two requests, each request's response
\* is the one it gets when handled alone, and no location written for one
\* request is read for the other.
C22_RequestsIsolated ==
    \A i \in Handlers :
        /\ (handler[i].pc = "returned" /\ handler[i].got.t # "none")
              => handler[i].returned = Alone(handler[i])
        /\ \A j \in Handlers \ {i} :
              handler[i].writes \cap handler[j].reads = {}

\* Two requests with different questions were in flight together, the
\* provider raised for both, and each got its own mock response; both
\* printed to the one stdout.
C22_Witness ==
    /\ \A i \in Handlers :
          /\ handler[i].pc = "returned"
          /\ handler[i].overlapped
          /\ handler[i].got = Raised
          /\ Stdout \in handler[i].writes
    /\ handler[1].query # handler[2].query
    /\ handler[1].returned # handler[2].returned

----------------------------------------------------------------------------
(* LLMIntegrator with any provider *)

\* class LLMProvider(Enum), by value.
LLMProvider == {"openai", "anthropic", "huggingface", "local"}

\* The client class _setup_client constructs for a provider.
ClientOf(provider) ==
    IF provider = "openai" THEN "openai.OpenAI" ELSE "anthropic.Anthropic"

\* A plausible slip: the second branch is an else.
setup_client_else(provider, ctor) ==
    IF provider = "openai"
    THEN [ raised |-> ctor # "ok", constructed |-> {"openai.OpenAI"},
           client |-> IF ctor = "ok" THEN "openai.OpenAI" ELSE "unset" ]
    ELSE [ raised |-> ctor # "ok", constructed |-> {"anthropic.Anthropic"},
           client |-> IF ctor = "ok" THEN "anthropic.Anthropic" ELSE "unset" ]

\* LLMIntegrator._setup_client: an if / elif over OPENAI and ANTHROPIC that
\* imports the package and constructs its client, and no else; self.client
\* stays unset for every other provider.  ctor is what importing and
\* constructing does; an ImportError is re-raised, nothing else is caught.
setup_client(provider, ctor) ==
    IF provider \in {"openai", "anthropic"}
    THEN [ raised |-> ctor # "ok", constructed |-> {ClientOf(provider)},
           client |-> IF ctor = "ok" THEN ClientOf(provider) ELSE "unset" ]
    ELSE [ raised |-> FALSE, constructed |-> {}, client |-> "unset" ]

\* LLMIntegrator.generate_response: _openai_response and _anthropic_response
\* call the client and return json.loads(content), or the mock response
\* after any exception; every other provider gets the mock response.
generate_response(self, query, got) ==
    IF self.provider \in {"openai", "anthropic"}
    THEN [ called |-> {self.client}, result |-> anthropic_response(query, got) ]
    ELSE [ called |-> {}, result |-> mock_response(query) ]

ProviderReplies_any == {Raised, Unparseable, Obj([text |-> ReplyText])}

ProviderInit ==
    /\ PipelineIdle
    /\ MockIdle
    /\ DecodeIdle
    /\ CompileIdle
    /\ EngineIdle
    /\ ServerIdle
    /\ ProviderIdle
    /\ CircuitIdle

\* integrator = LLMIntegrator(provider)
Construct(provider, ctor) ==
    /\ LET made == setup_client(provider, ctor) IN
       integrator' = [NoIntegrator EXCEPT !.provider    = provider,
                                          !.client      = made.client,
                                          !.constructed = made.constructed,
                                          !.raised      = made.raised]
    /\ UNCHANGED <<pipelineVars, mockVars, decodeVars, compileVars,
                   engineVars, serverVars, circuitVars>>

\* await integrator.generate_response(query), on a constructed integrator;
\* got is what the provider's API does when it is called.
Generate(query, got) ==
    /\ integrator.provider # "none"
    /\ ~integrator.raised
    /\ LET done == generate_response(integrator, query, got) IN
       integrator' = [integrator EXCEPT !.query  = query,
                                        !.called = @ \cup done.called,
                                        !.result = done.result]
    /\ UNCHANGED <<pipelineVars, mockVars, decodeVars, compileVars,
                   engineVars, serverVars, circuitVars>>

ProviderNext ==
    \/ \E provider \in LLMProvider, ctor \in CtorOutcomes :
          Construct(provider, ctor)
    \/ \E query \in MockQueries, got \in ProviderReplies_any :
          Generate(query, got)

ProviderSpec == ProviderInit /\ [][ProviderNext]_vars

\* C28: with provider HUGGINGFACE or LOCAL, constructing the integrator and
\* calling generate_response constructs no client, calls none, raises
\* nothing, and returns the mock response for the query.
C28_OtherProvidersUseMock ==
    integrator.provider \in {"huggingface", "local"} =>
        /\ integrator.constructed = {}
        /\ integrator.called = {}
        /\ ~integrator.raised
        /\ integrator.result.t # "none"
              => integrator.result = mock_response(integrator.query)

\* generate_response of a LOCAL integrator returned the mock response with
\* its animation_instructions.
C28_Witness ==
    /\ integrator.provider = "local"
    /\ integrator.client = "unset"
    /\ HasKey(integrator.result, "animation_instructions")
    /\ integrator.result = mock_response(integrator.query)

----------------------------------------------------------------------------
(* The electric-circuit template in a page (animation_templates.py) *)

\* The most frames drawn before the window's load event.
MaxEarlyFrames == 2

Point(x, y) == [x |-> x, y |-> y]

\* const wirePaths: the top, the right and the bottom wire.
wirePaths ==
    << << Point(160, 280), Point(400, 280), Point(400, 210) >>,
       << Point(480, 210), Point(600, 210), Point(600, 285) >>,
       << Point(600, 315), Point(600, 400), Point(160, 400),
          Point(160, 320) >> >>

electronSpeed == 2

\* for(let j = 0; j < 3; j++)
ElectronsPerSegment == 3

\* segmentProgress is kept in units of 1/300, in which j / 3 and
\* electronSpeed / 100 are whole numbers; 1 is 300.  Sums of these doubles
\* reach 1 after the same number of additions as the whole numbers reach
\* 300 (50 from 0, 34 from 1/3, 17 from 2/3).
ProgressUnit == 300

\* An entry of the list electrons; x and y, which follow from the other
\* three and which only drawElectrons reads, are left out.
Electron(pathIndex, i, progress) ==
    [pathIndex |-> pathIndex, segmentIndex |-> i, segmentProgress |-> progress]

\* The electrons createElectrons pushes from segment i of path pathIndex
\* on, in the order of its three loops.
RECURSIVE PushedFrom(_, _)
PushedFrom(pathIndex, i) ==
    IF pathIndex >= Len(wirePaths) THEN <<>>
    ELSE IF i >= Len(wirePaths[pathIndex + 1]) - 1
    THEN PushedFrom(pathIndex + 1, 0)
    ELSE [j \in 1..ElectronsPerSegment |->
            Electron(pathIndex, i,
                     ((j - 1) * ProgressUnit) \div ElectronsPerSegment)]
         \o PushedFrom(pathIndex, i + 1)

createElectrons(electrons) == electrons \o PushedFrom(0, 0)

\* A plausible slip: the path index is incremented without the modulo.
updateElectron_no_wrap(electron) ==
    IF electron.pathIndex + 1 \notin DOMAIN wirePaths THEN electron
    ELSE
    LET path     == wirePaths[electron.pathIndex + 1]
        progress == electron.segmentProgress
                      + (electronSpeed * ProgressUnit) \div 100
    IN
    IF progress < ProgressUnit
    THEN [electron EXCEPT !.segmentProgress = progress]
    ELSE IF electron.segmentIndex + 1 >= Len(path) - 1
    THEN Electron(electron.pathIndex + 1, 0, 0)
    ELSE Electron(electron.pathIndex, electron.segmentIndex + 1, 0)

\* The body of the forEach of updateElectrons, for one electron.
updateElectron(electron) ==
    IF electron.pathIndex + 1 \notin DOMAIN wirePaths THEN electron
    ELSE
    LET path     == wirePaths[electron.pathIndex + 1]
        progress == electron.segmentProgress
                      + (electronSpeed * ProgressUnit) \div 100
    IN
    IF progress < ProgressUnit
    THEN [electron EXCEPT !.segmentProgress = progress]
    ELSE IF electron.segmentIndex + 1 >= Len(path) - 1
    THEN Electron((electron.pathIndex + 1) % Len(wirePaths), 0, 0)
    ELSE Electron(electron.pathIndex, electron.segmentIndex + 1, 0)

updateElectrons(electrons) ==
    [k \in 1..Len(electrons) |-> updateElectron(electrons[k])]

\* createElectrons(); animate();  animate draws, updates the electrons and
\* requests the next frame: one more frame loop is running.
StartAnimation(c) ==
    [c EXCEPT !.electrons = updateElectrons(createElectrons(@)),
              !.loops = @ + 1]

CircuitInit ==
    /\ PipelineIdle
    /\ MockIdle
    /\ DecodeIdle
    /\ CompileIdle
    /\ EngineIdle
    /\ ServerIdle
    /\ ProviderIdle
    /\ CircuitIdle

\* The template's script runs, before the window's load event ("pending")
\* or after it ("fired"): it registers the load listener, then starts the
\* animation at once (lines 484-492).
RunScript(load) ==
    /\ circuit.script = "none"
    /\ circuit' = StartAnimation([NoCircuit EXCEPT !.script = "ran",
                                                   !.load = load,
                                                   !.listeners = 1])
    /\ UNCHANGED <<pipelineVars, mockVars, decodeVars, compileVars,
                   engineVars, serverVars, providerVars>>

\* The load event fires and the listener runs.
LoadFires ==
    /\ circuit.script = "ran"
    /\ circuit.load = "pending"
    /\ circuit' = StartAnimation([circuit EXCEPT !.load = "fired"])
    /\ UNCHANGED <<pipelineVars, mockVars, decodeVars, compileVars,
                   engineVars, serverVars, providerVars>>

\* One callback of requestAnimationFrame runs animate.
CircuitFrame ==
    /\ circuit.loops > 0
    /\ circuit.load = "pending" => circuit.early < MaxEarlyFrames
    /\ circuit' = [circuit EXCEPT
                     !.electrons = updateElectrons(@),
                     !.early = IF circuit.load = "pending" THEN @ + 1 ELSE @]
    /\ UNCHANGED <<pipelineVars, mockVars, decodeVars, compileVars,
                   engineVars, serverVars, providerVars>>

CircuitNext ==
    \/ \E load \in {"pending", "fired"} : RunScript(load)
    \/ LoadFires
    \/ CircuitFrame

CircuitSpec == CircuitInit /\ [][CircuitNext]_vars

\* C29: once the script has run and the load event has fired, before the
\* script or after it, the list holds the 21 electrons of one
\* createElectrons and one frame loop is running.
C29_StartsOnce ==
    (circuit.script = "ran" /\ circuit.load = "fired") =>
        /\ Len(circuit.electrons) = 21
        /\ circuit.loops = 1

ElectronsInRange ==
    \A k \in 1..Len(circuit.electrons) :
        LET electron == circuit.electrons[k] IN
        /\ electron.pathIndex \in 0..2
        /\ electron.segmentIndex >= 0
        /\ electron.segmentIndex <= Len(wirePaths[electron.pathIndex + 1]) - 2
        /\ electron.segmentProgress >= 0
        /\ electron.segmentProgress < ProgressUnit

\* The electron moved on from the last segment of its path.
LeavesPath(old, new) ==
    /\ old.pathIndex \in 0..2
    /\ old.segmentIndex = Len(wirePaths[old.pathIndex + 1]) - 2
    /\ <<new.pathIndex, new.segmentIndex>>
          # <<old.pathIndex, old.segmentIndex>>

\* C30: every electron has pathIndex in 0..2, segmentIndex from 0 to the
\* number of points of its path minus 2 and segmentProgress from 0 to
\* below 1, and an electron that leaves the last segment of a path enters
\* segment 0 of the next path in the cycle 0, 1, 2, 0.
C30_ElectronsStayOnWires ==
    /\ []ElectronsInRange
    /\ [][\A k \in 1..Len(circuit.electrons) :
            LeavesPath(circuit.electrons[k], circuit'.electrons[k]) =>
                /\ circuit'.electrons[k].pathIndex
                      = (circuit.electrons[k].pathIndex + 1) % 3
                /\ circuit'.electrons[k].segmentIndex = 0]_vars

\* The first electron of the top wire has reached the right wire, and the
\* last electron of the bottom wire has gone round to the top wire.
C30_Witness ==
    /\ Len(circuit.electrons) = 21
    /\ circuit.electrons[1].pathIndex = 1
    /\ circuit.electrons[21].pathIndex = 0

============================================================================
